---------------------------- MODULE Spec2Model ----------------------------
(***************************************************************************)
(* Model of the quantum-minefield simulation core (crates/qmf-core):       *)
(* the seeded generator (rng.rs), the gate pipeline (circuit.rs), the      *)
(* entanglement registry (entanglement.rs) and the grid state machine      *)
(* (grid.rs).                                                              *)
(*                                                                         *)
(* Conventions.                                                            *)
(*  - The grid is one record `grid` with the fields of QuantumGrid; every  *)
(*    method of the source is an operator of the same name that takes the  *)
(*    grid and returns the new grid (and the returned value).              *)
(*  - Cells, the mine map and link endpoints are indexed from 0, as in the *)
(*    source; the position (x, y) of a cell is coords_of(index).           *)
(*  - f64 values (probabilities, strengths, noise) are fixed-point numbers *)
(*    in units of 1/PScale, rounded down.                                  *)
(*  - The generator is SplitMix64 scaled to a word of RngBits bits: the    *)
(*    same additive step, xorshift-multiply rounds and rejection test,     *)
(*    with constants and shifts reduced to the word width.                 *)
(***************************************************************************)
EXTENDS Integers, Sequences, FiniteSets, TLC

\* ------------------------------------------------------------------------
\* Bounds of the model
\* ------------------------------------------------------------------------

\* Width of the generator's word, in bits (64 in the source).
RngBits == 6

\* Seeds given to new() are 0..MaxSeed.
MaxSeed == 0

\* Mine counts requested of new() are 0..MaxMines.
MaxMines == 2

\* Number of measurement-tool calls (apply_hadamard, measure_weak) per game.
MaxTools == 1

\* Pops of the work stack one propagate_collapse call is followed for.
MaxCollapseSteps == 6

\* Width of the u32 counters of new() (cell count, mine count), in bits: the
\* arithmetic of width * height - 9 is modulo 2^CountBits.
CountBits == 8

\* new() is also called with every width in 0..MaxWidth, every height in
\* 0..MaxHeight and every mine count in 0..MaxRequest.
MaxWidth == 4
MaxHeight == 3
MaxRequest == 3

\* The largest side of the grids whose links are built
MaxSide == 6

\* Bounds given to next_usize are 0..MaxBound.
MaxBound == 7

\* Strengths and baselines given to add_pair and collapse_partner_probability
\* are the multiples of FractionStep / PScale from one step below 0.0 to one
\* step above 1.0.
FractionStep == 50

\* Significant decimal digits a floating-point subtraction keeps.
FloatDigits == 3

\* Grid dimensions <<width, height>> given to new().
Dims == {<<3, 3>>, <<4, 3>>}

\* Difficulty labels given to new(): the default one, with weak links only,
\* and the hardest, whose first link is a hard one.
Difficulties == {"researcher", "theorist"}

\* ------------------------------------------------------------------------
\* Fixed-point numbers
\* ------------------------------------------------------------------------

\* One unit of an f64 value: 1.0 is PScale.
PScale == 1000

Min(a, b) == IF a < b THEN a ELSE b

Max(a, b) == IF a > b THEN a ELSE b

\* f64::clamp
clamp(v, lo, hi) == IF v < lo THEN lo ELSE IF v > hi THEN hi ELSE v

\* a * b for two fixed-point numbers
fmul(a, b) == (a * b) \div PScale

\* Option::None of index_of
None == -1

\* The unit in the last place of the floating-point number nearest to v >= 0:
\* the least power of ten u >= `unit` with fewer than 10^FloatDigits units in v.
RECURSIVE ulp(_, _)
ulp(v, unit) == IF v \div unit < 10 ^ FloatDigits THEN unit ELSE ulp(v, unit * 10)

\* v >= 0 rounded to the nearest multiple of u, ties to the even multiple
round_to(v, u) ==
    IF 2 * (v % u) < u THEN (v \div u) * u
    ELSE IF 2 * (v % u) > u THEN (v \div u + 1) * u
    ELSE IF (v \div u) % 2 = 0 THEN (v \div u) * u
    ELSE (v \div u + 1) * u

\* The floating-point number nearest to v >= 0 (every number of the grid
\* 0..PScale is one; finer grids hold numbers that are not)
fround(v) == round_to(v, ulp(v, 1))

\* 1.0 on the grid on which the rounding of 1.0 - p shows: one decimal digit
\* more than a floating-point number keeps
FineScale == 10 ^ (FloatDigits + 1)

\* ------------------------------------------------------------------------
\* rng.rs: SplitMix64
\* ------------------------------------------------------------------------

Word == 2 ^ RngBits

\* u64::MAX at the model's word width
WordMax == Word - 1

\* Low 15 bits of the increment 0x9e37_79b9_7f4a_7c15
GOLDEN_GAMMA == 31765

\* Low 15 bits of the first multiplier 0xbf58_476d_1ce4_e5b9
MIX_MUL_1 == 26041

\* Low 15 bits of the second multiplier 0x94d0_49bb_1331_11eb
MIX_MUL_2 == 4587

\* The shifts 30, 27, 31 and 11 of a 64-bit word
SHIFT_1 == 30

SHIFT_2 == 27

SHIFT_3 == 31

SHIFT_F64 == 11

\* A shift of the 64-bit word scaled to the model's word
ScaledShift(k) == (k * RngBits) \div 64

Shr(z, k) == z \div (2 ^ k)

RECURSIVE Xor(_, _)
Xor(a, b) ==
    IF a = 0 THEN b
    ELSE IF b = 0 THEN a
    ELSE ((a + b) % 2) + 2 * Xor(a \div 2, b \div 2)

\* z = (z ^ (z >> k)).wrapping_mul(m)
MixRound(z, k, m) == (Xor(z, Shr(z, ScaledShift(k))) * (m % Word)) % Word

\* The output of next_u64 for each value of the advanced state.
Finalizer ==
    [s \in 0..WordMax |->
        LET z1 == MixRound(s, SHIFT_1, MIX_MUL_1)
            z2 == MixRound(z1, SHIFT_2, MIX_MUL_2)
        IN  Xor(z2, Shr(z2, ScaledShift(SHIFT_3)))]

\* SplitMix64::new
rng_new(seed) == seed % Word

\* SplitMix64::next_u64: advance the state, return the mixed value.
next_u64(state) ==
    LET s == (state + GOLDEN_GAMMA) % Word
    IN  [rng |-> s, value |-> Finalizer[s]]

\* SplitMix64::next_f64: the top bits of a draw as a fraction in [0, 1).
next_f64(state) ==
    LET d == next_u64(state)
        k == ScaledShift(SHIFT_F64)
    IN  [rng |-> d.rng,
         value |-> (Shr(d.value, k) * PScale) \div (2 ^ (RngBits - k))]

\* SplitMix64::next_usize: rejection sampling, where usize is as wide as the
\* word (a 64-bit target).
RECURSIVE next_usize(_, _)
next_usize(state, bound) ==
    IF bound <= 1 THEN [rng |-> state, value |-> 0]
    ELSE LET d == next_u64(state)
             bucket == d.value % bound
         IN  IF d.value - bucket <= WordMax - (bound - 1)
             THEN [rng |-> d.rng, value |-> bucket]
             ELSE next_usize(d.rng, bound)

\* The targets the crate is compiled for: usize has the width of the
\* generator's word on a 64-bit target and half of it on wasm32.
Targets == {"64-bit", "wasm32"}

\* usize::BITS on the target, at the model's word width
usize_bits(target) == IF target = "wasm32" THEN RngBits \div 2 ELSE RngBits

\* x as usize % bound
bucket_of(x, bound, target) == (x % (2 ^ usize_bits(target))) % bound

\* x.wrapping_sub(bucket as u64) <= u64::MAX - (bound as u64 - 1)
accepted(x, bound, bucket) == (x - bucket + Word) % Word <= WordMax - (bound - 1)

\* SplitMix64::next_usize on the given target, with the number of draws taken
RECURSIVE next_usize_on(_, _, _, _)
next_usize_on(state, bound, target, draws) ==
    IF bound <= 1 THEN [rng |-> state, value |-> 0, draws |-> draws]
    ELSE LET d == next_u64(state)
         IN  IF accepted(d.value, bound, bucket_of(d.value, bound, target))
             THEN [rng |-> d.rng, value |-> bucket_of(d.value, bound, target),
                   draws |-> draws + 1]
             ELSE next_usize_on(d.rng, bound, target, draws + 1)

\* ------------------------------------------------------------------------
\* circuit.rs: the gate pipeline
\* ------------------------------------------------------------------------

\* cos^2(theta/2) for the three angles the presets use
COS2_FRAC_PI_6 == 933

COS2_FRAC_PI_4 == 854

COS2_FRAC_PI_3 == 750

Cos2Half(theta) ==
    CASE theta = "FRAC_PI_6" -> COS2_FRAC_PI_6
      [] theta = "FRAC_PI_4" -> COS2_FRAC_PI_4
      [] theta = "FRAC_PI_3" -> COS2_FRAC_PI_3

Hadamard == [gate |-> "Hadamard"]

Not == [gate |-> "Not"]

PhaseShift(theta) == [gate |-> "PhaseShift", theta |-> theta]

\* The gates with a Hadamard that doubles the distance from the centre
apply_gate_stretching(gate, p) ==
    CASE gate.gate = "Hadamard" -> (PScale \div 2) + (p - PScale \div 2) * 2
      [] gate.gate = "Not" -> PScale - p
      [] gate.gate = "PhaseShift" ->
            clamp((p * Cos2Half(gate.theta)
                   + (PScale - p) * (PScale - Cos2Half(gate.theta))) \div PScale,
                  0, PScale)

\* One gate applied to p
apply_gate(gate, p) ==
    CASE gate.gate = "Hadamard" -> (PScale \div 2) + (p - PScale \div 2) \div 2
      [] gate.gate = "Not" -> PScale - p
      [] gate.gate = "PhaseShift" ->
            LET c2 == Cos2Half(gate.theta)
                s2 == PScale - c2
            IN  clamp((p * c2 + (PScale - p) * s2) \div PScale, 0, PScale)

\* Circuit::apply_probability: fold the gates over the clamped input.
RECURSIVE fold_gates(_, _, _)
fold_gates(gates, k, p) ==
    IF k > Len(gates) THEN p ELSE fold_gates(gates, k + 1, apply_gate(gates[k], p))

apply_probability(circuit, input) == fold_gates(circuit, 1, clamp(input, 0, PScale))

\* Circuit::for_difficulty
for_difficulty(label) ==
    CASE label = "observer" -> <<PhaseShift("FRAC_PI_6")>>
      [] label = "theorist" -> <<Hadamard, PhaseShift("FRAC_PI_3"), Hadamard>>
      [] OTHER -> <<Hadamard, PhaseShift("FRAC_PI_4")>>

\* ------------------------------------------------------------------------
\* entanglement.rs: the registry of links
\* ------------------------------------------------------------------------

\* Entanglement::add_pair
add_pair(pairs, left, right, strength, link_type) ==
    Append(pairs, [left |-> left, right |-> right,
                   strength |-> clamp(strength, 0, PScale),
                   link_type |-> link_type])

\* Entanglement::partners_of: every link touching index, in registry order,
\* with the other endpoint.
RECURSIVE partners_from(_, _, _)
partners_from(pairs, k, index) ==
    IF k > Len(pairs) THEN <<>>
    ELSE LET pair == pairs[k]
             rest == partners_from(pairs, k + 1, index)
         IN  IF pair.left = index
             THEN <<[pair |-> pair, partner |-> pair.right]>> \o rest
             ELSE IF pair.right = index
             THEN <<[pair |-> pair, partner |-> pair.left]>> \o rest
             ELSE rest

partners_of(pairs, index) == partners_from(pairs, 1, index)

\* Entanglement::partner_of: the first link touching index (<<>> is None).
partner_of(pairs, index) ==
    LET all == partners_of(pairs, index)
    IN  IF all = <<>> THEN <<>> ELSE <<all[1]>>

\* The anti-correlation of a hard link turned into a correlation
collapse_correlated(pair, observed_mine, baseline_probability) ==
    IF observed_mine THEN PScale ELSE 0

\* Every link taken at full strength: the partner gets the target itself.
collapse_full_strength(pair, observed_mine, baseline_probability) ==
    IF pair.link_type = "BellState"
    THEN IF observed_mine THEN 0 ELSE PScale
    ELSE IF observed_mine THEN PScale - clamp(baseline_probability, 0, PScale)
    ELSE clamp(baseline_probability, 0, PScale)

\* Entanglement::collapse_partner_probability
collapse_partner_probability(pair, observed_mine, baseline_probability) ==
    IF pair.link_type = "BellState"
    THEN IF observed_mine THEN 0 ELSE PScale
    ELSE LET baseline == clamp(baseline_probability, 0, PScale)
             entangled_target == IF observed_mine THEN PScale - baseline ELSE baseline
         IN  clamp(fmul(baseline, PScale - pair.strength)
                   + fmul(entangled_target, pair.strength), 0, PScale)

\* ------------------------------------------------------------------------
\* grid.rs: cells and helpers
\* ------------------------------------------------------------------------

\* CellState
Superposition(probability) == [state |-> "Superposition", probability |-> probability]

Revealed(adjacent_mines) == [state |-> "Revealed", adjacent_mines |-> adjacent_mines]

Contained == [state |-> "Contained"]

Detonated == [state |-> "Detonated"]

\* matches!(cell.state, CellState::Superposition { .. })
is_superposition(cell) == cell.state = "Superposition"

\* self.cells.len()
cells_len(g) == Cardinality(DOMAIN g.cells)

\* QuantumCell: a cell of the grid with its position, as outcomes carry it.
QuantumCell(g, index) ==
    [x |-> index % g.width, y |-> index \div g.width, state |-> g.cells[index]]

\* QuantumGrid::index_of
index_of(g, x, y) ==
    IF x >= g.width \/ y >= g.height THEN None ELSE y * g.width + x

\* QuantumGrid::coords_of
coords_of(g, index) == [x |-> index % g.width, y |-> index \div g.width]

\* u32::saturating_sub
saturating_sub(a, b) == IF a >= b THEN a - b ELSE 0

\* The positions the neighbour loops of adjacent_mines, neighbor_count and
\* flood_fill visit around (x, y), the centre included, in loop order
\* (rows outermost).
neighbor_window(g, x, y) ==
    LET x0 == saturating_sub(x, 1)
        x1 == Min(x + 1, saturating_sub(g.width, 1))
        y0 == saturating_sub(y, 1)
        y1 == Min(y + 1, saturating_sub(g.height, 1))
        nx == x1 - x0 + 1
        ny == y1 - y0 + 1
    IN  IF nx <= 0 \/ ny <= 0 THEN <<>>
        ELSE [k \in 1..(nx * ny) |->
                 [x |-> x0 + ((k - 1) % nx), y |-> y0 + ((k - 1) \div nx)]]

\* The count over the four orthogonal neighbours only
adjacent_mines_orthogonal(g, x, y) ==
    LET w == neighbor_window(g, x, y)
    IN  Cardinality({k \in DOMAIN w :
            /\ (w[k].x = x) # (w[k].y = y)
            /\ index_of(g, w[k].x, w[k].y) # None
            /\ g.mine_map[index_of(g, w[k].x, w[k].y)]})

\* QuantumGrid::adjacent_mines: mines among the in-bounds neighbours.
adjacent_mines(g, x, y) ==
    LET w == neighbor_window(g, x, y)
    IN  Cardinality({k \in DOMAIN w :
            /\ ~(w[k].x = x /\ w[k].y = y)
            /\ index_of(g, w[k].x, w[k].y) # None
            /\ g.mine_map[index_of(g, w[k].x, w[k].y)]})

\* QuantumGrid::neighbor_count: number of in-bounds neighbours.
neighbor_count(g, x, y) ==
    LET w == neighbor_window(g, x, y)
    IN  Cardinality({k \in DOMAIN w : ~(w[k].x = x /\ w[k].y = y)})

\* is_win_condition_met with any() written for all()
is_win_any(g) ==
    /\ ~g.game_over
    /\ \E i \in DOMAIN g.cells : ~is_superposition(g.cells[i])

\* QuantumGrid::is_win_condition_met
is_win_condition_met(g) ==
    /\ ~g.game_over
    /\ \A i \in DOMAIN g.cells : ~is_superposition(g.cells[i])

\* QuantumGrid::entropy: the fraction of cells in Superposition.
entropy(g) ==
    LET total == cells_len(g)
        unresolved == Cardinality({i \in DOMAIN g.cells : is_superposition(g.cells[i])})
    IN  IF total = 0 THEN 0 ELSE (unresolved * PScale) \div total

\* QuantumGrid::get_probability_cloud
get_probability_cloud(g) ==
    [i \in DOMAIN g.cells |->
        CASE g.cells[i].state = "Superposition" -> g.cells[i].probability
          [] g.cells[i].state \in {"Contained", "Detonated"} -> PScale
          [] g.cells[i].state = "Revealed" -> 0]

\* ------------------------------------------------------------------------
\* grid.rs: chain collapse and link propagation
\* ------------------------------------------------------------------------

\* The collapse that believes the anti-correlation: a mine when the trigger
\* was safe, safe when the trigger was a mine.
collapsed_as_predicted(g, current, was_mine) ==
    IF ~was_mine THEN Contained
    ELSE Revealed(adjacent_mines(g, coords_of(g, current).x, coords_of(g, current).y))

\* The cell propagate_collapse writes for `current`, given the trigger.
collapsed_state(g, current, was_mine) ==
    LET partner_is_mine == ~was_mine
        c == coords_of(g, current)
    IN  IF g.mine_map[current] /\ partner_is_mine THEN Contained
        ELSE IF ~g.mine_map[current] /\ ~partner_is_mine
        THEN Revealed(adjacent_mines(g, c.x, c.y))
        ELSE IF g.mine_map[current] THEN Contained
        ELSE Revealed(adjacent_mines(g, c.x, c.y))

\* The cascade cut short: no partner of `current` is pushed.
push_no_partners(stack, partners, k, visited, trigger) == stack

\* The Bell partners of `current` pushed on the stack: those not visited,
\* each with the ground truth of `current` as its trigger.
RECURSIVE push_partners(_, _, _, _, _)
push_partners(stack, partners, k, visited, trigger) ==
    IF k > Len(partners) THEN stack
    ELSE LET p == partners[k]
         IN  IF p.pair.link_type = "BellState" /\ p.partner \notin visited
             THEN push_partners(Append(stack, [index |-> p.partner, was_mine |-> trigger]),
                                partners, k + 1, visited, trigger)
             ELSE push_partners(stack, partners, k + 1, visited, trigger)

\* The state of a cascade: the grid, the indices whose state was assigned, in
\* order, and whether the loop has run to its end.
Cascade(g, writes, returned) == [grid |-> g, writes |-> writes, returned |-> returned]

\* The while loop without its two guards: every popped cell is resolved again
\* and every Bell partner is pushed again.
RECURSIVE collapse_run_unguarded(_, _, _, _, _)
collapse_run_unguarded(g, stack, visited, writes, fuel) ==
    IF stack = <<>> THEN Cascade(g, writes, TRUE)
    ELSE IF fuel = 0 THEN Cascade(g, writes, FALSE)
    ELSE LET top == stack[Len(stack)]
             rest == SubSeq(stack, 1, Len(stack) - 1)
             current == top.index
         IN  collapse_run_unguarded(
                 [g EXCEPT !.cells[current] = collapsed_state(g, current, top.was_mine)],
                 push_partners(rest, partners_of(g.entanglement, current),
                               1, {}, g.mine_map[current]),
                 visited, Append(writes, current), fuel - 1)

\* The while loop of propagate_collapse over its work stack, `fuel` pops of
\* the stack at most.
RECURSIVE collapse_run(_, _, _, _, _)
collapse_run(g, stack, visited, writes, fuel) ==
    IF stack = <<>> THEN Cascade(g, writes, TRUE)
    ELSE IF fuel = 0 THEN Cascade(g, writes, FALSE)
    ELSE LET top == stack[Len(stack)]
             rest == SubSeq(stack, 1, Len(stack) - 1)
             current == top.index
         IN  IF current \in visited
             THEN collapse_run(g, rest, visited, writes, fuel - 1)
             ELSE IF ~is_superposition(g.cells[current])
             THEN collapse_run(g, rest, visited \cup {current}, writes, fuel - 1)
             ELSE collapse_run(
                      [g EXCEPT !.cells[current] =
                           collapsed_state(g, current, top.was_mine)],
                      push_partners(rest, partners_of(g.entanglement, current),
                                    1, visited \cup {current}, g.mine_map[current]),
                      visited \cup {current}, Append(writes, current), fuel - 1)

\* QuantumGrid::propagate_collapse, continuing the cascade r
propagate_collapse_run(r, index, triggering_cell_was_mine, visited) ==
    collapse_run(r.grid, <<[index |-> index, was_mine |-> triggering_cell_was_mine]>>,
                 visited, r.writes, MaxCollapseSteps)

\* The grid the while loop of propagate_collapse leaves
collapse_loop(g, stack, visited) ==
    collapse_run(g, stack, visited, <<>>, MaxCollapseSteps).grid

\* QuantumGrid::propagate_collapse
propagate_collapse(g, index, triggering_cell_was_mine, visited) ==
    propagate_collapse_run(Cascade(g, <<>>, TRUE), index,
                           triggering_cell_was_mine, visited).grid

\* The link find() returns in the Probabilistic branch: the first link of
\* `index` whose other endpoint is `partner_index` (<<>> is Option::None,
\* <<pair>> is Some(pair)).
RECURSIVE find_pair(_, _, _)
find_pair(partners, k, partner_index) ==
    IF k > Len(partners) THEN <<>>
    ELSE IF partners[k].partner = partner_index THEN <<partners[k].pair>>
    ELSE find_pair(partners, k + 1, partner_index)

\* The Probabilistic branch that leaves the partner as it is
adjust_partner_skipped(r, pair_ref, partner_index, was_mine) == r

\* The Probabilistic branch: the partner keeps its Superposition state with
\* the adjusted probability.
adjust_partner(r, pair_ref, partner_index, was_mine) ==
    IF pair_ref = <<>> THEN r
    ELSE Cascade([r.grid EXCEPT !.cells[partner_index] =
                      Superposition(collapse_partner_probability(
                          pair_ref[1], was_mine,
                          r.grid.cells[partner_index].probability))],
                 Append(r.writes, partner_index), r.returned)

\* The for loop of propagate_entanglement over the partners collected at
\* entry, continuing the cascade r.
RECURSIVE propagate_run(_, _, _, _, _)
propagate_run(r, partners, k, index, was_mine) ==
    IF k > Len(partners) \/ ~r.returned THEN r
    ELSE IF ~is_superposition(r.grid.cells[partners[k].partner])
    THEN propagate_run(r, partners, k + 1, index, was_mine)
    ELSE IF partners[k].pair.link_type = "BellState"
    THEN propagate_run(
             propagate_collapse_run(r, partners[k].partner, was_mine, {index}),
             partners, k + 1, index, was_mine)
    ELSE propagate_run(
             adjust_partner(r, find_pair(partners_of(r.grid.entanglement, index), 1,
                                         partners[k].partner),
                            partners[k].partner, was_mine),
             partners, k + 1, index, was_mine)

\* The grid the for loop of propagate_entanglement leaves
propagate_loop(g, partners, k, index, was_mine) ==
    propagate_run(Cascade(g, <<>>, TRUE), partners, k, index, was_mine).grid

\* QuantumGrid::propagate_entanglement, with the cells it assigned
propagate_entanglement_run(g, index, was_mine) ==
    propagate_run(Cascade(g, <<>>, TRUE), partners_of(g.entanglement, index), 1,
                  index, was_mine)

\* QuantumGrid::propagate_entanglement
propagate_entanglement(g, index, was_mine) ==
    propagate_entanglement_run(g, index, was_mine).grid

\* ------------------------------------------------------------------------
\* grid.rs: flood fill and reveal_safe
\* ------------------------------------------------------------------------

\* The two nested for loops of flood_fill around the popped cell (cx, cy).
RECURSIVE flood_window(_, _, _, _, _, _)
flood_window(g, stack, w, k, cx, cy) ==
    IF k > Len(w) THEN [grid |-> g, stack |-> stack]
    ELSE LET nx == w[k].x
             ny == w[k].y
             idx == index_of(g, nx, ny)
         IN  IF (nx = cx /\ ny = cy) \/ idx = None
             THEN flood_window(g, stack, w, k + 1, cx, cy)
             ELSE IF ~is_superposition(g.cells[idx]) \/ g.mine_map[idx]
             THEN flood_window(g, stack, w, k + 1, cx, cy)
             ELSE LET adj == adjacent_mines(g, nx, ny)
                      g1 == [g EXCEPT !.cells[idx] = Revealed(adj)]
                  IN  flood_window(g1,
                                   IF adj = 0 THEN Append(stack, [x |-> nx, y |-> ny])
                                   ELSE stack,
                                   w, k + 1, cx, cy)

\* The while loop of flood_fill over its stack.
RECURSIVE flood_loop(_, _)

\* The next iteration of the while loop, on what the for loops left.
flood_next(r) == flood_loop(r.grid, r.stack)

flood_loop(g, stack) ==
    IF stack = <<>> THEN g
    ELSE LET top == stack[Len(stack)]
             rest == SubSeq(stack, 1, Len(stack) - 1)
             w == LET x0 == saturating_sub(top.x, 1)
                      x1 == Min(top.x + 1, g.width - 1)
                      y0 == saturating_sub(top.y, 1)
                      y1 == Min(top.y + 1, g.height - 1)
                      nx == x1 - x0 + 1
                      ny == y1 - y0 + 1
                  IN  [k \in 1..(nx * ny) |->
                          [x |-> x0 + ((k - 1) % nx), y |-> y0 + ((k - 1) \div nx)]]
         IN  flood_next(flood_window(g, rest, w, 1, top.x, top.y))

\* QuantumGrid::flood_fill
flood_fill(g, start_x, start_y) == flood_loop(g, <<[x |-> start_x, y |-> start_y]>>)

\* The links of every cell that differs between g0 and gf processed as if the
\* cell had been clicked, from the cell k on
RECURSIVE propagate_flooded(_, _, _)
propagate_flooded(gf, g0, k) ==
    IF k >= cells_len(g0) THEN gf
    ELSE IF g0.cells[k] # gf.cells[k] /\ gf.cells[k].state = "Revealed"
    THEN propagate_flooded(propagate_entanglement(gf, k, FALSE), g0, k + 1)
    ELSE propagate_flooded(gf, g0, k + 1)

\* A flood fill whose cells trigger link processing
flood_and_propagate(g, adj, x, y) ==
    IF adj = 0 THEN propagate_flooded(flood_fill(g, x, y), g, 0) ELSE g

\* if adj == 0 { self.flood_fill(x, y) }
flood_if_zero(g, adj, x, y) == IF adj = 0 THEN flood_fill(g, x, y) ELSE g

\* self.won = self.is_win_condition_met()
update_won(g) == [g EXCEPT !.won = is_win_condition_met(g)]

\* RevealOutcome::Revealed { cell: self.cells[index].clone() }
revealed_outcome(g, index) ==
    [grid |-> g, outcome |-> [kind |-> "Revealed", cell |-> QuantumCell(g, index)]]

\* A reveal that costs a charge when one is left
revealed_for_a_charge(g, index) ==
    [g EXCEPT !.cells[index] =
         Revealed(adjacent_mines(g, coords_of(g, index).x, coords_of(g, index).y)),
              !.containment_charges = Max(@ - 1, 0)]

\* self.cells[index].state = CellState::Revealed { adjacent_mines: adj }
revealed(g, index) ==
    [g EXCEPT !.cells[index] =
         Revealed(adjacent_mines(g, coords_of(g, index).x, coords_of(g, index).y))]

\* reveal_safe with the assignment of the target cell forgotten
reveal_safe_no_write(g, index) ==
    LET c == coords_of(g, index)
        adj == adjacent_mines(g, c.x, c.y)
    IN  revealed_outcome(
            update_won(
                flood_if_zero(propagate_entanglement(g, index, FALSE), adj, c.x, c.y)),
            index)

\* QuantumGrid::reveal_safe
reveal_safe(g, index) ==
    LET c == coords_of(g, index)
        adj == adjacent_mines(g, c.x, c.y)
    IN  revealed_outcome(
            update_won(
                flood_if_zero(
                    propagate_entanglement(revealed(g, index), index, FALSE),
                    adj, c.x, c.y)),
            index)

\* ------------------------------------------------------------------------
\* grid.rs: mine placement
\* ------------------------------------------------------------------------

\* excluded_of with the neighbours forgotten: only the clicked cell is safe.
excluded_center_only(g, safe_index) == {safe_index}

\* excluded_of with the clicked cell itself forgotten.
excluded_without_center(g, safe_index) ==
    LET s == coords_of(g, safe_index)
    IN  {p[2] * g.width + p[1] : p \in
            {<<s.x + d[1], s.y + d[2]>> : d \in
                {d \in (-1..1) \X (-1..1) :
                    /\ d # <<0, 0>>
                    /\ s.x + d[1] >= 0 /\ s.x + d[1] < g.width
                    /\ s.y + d[2] >= 0 /\ s.y + d[2] < g.height}}}

\* The exclusion set place_mines builds: safe_index and its in-bounds
\* neighbours.
excluded_of(g, safe_index) ==
    LET s == coords_of(g, safe_index)
    IN  {p[2] * g.width + p[1] : p \in
            {<<s.x + d[1], s.y + d[2]>> : d \in
                {d \in (-1..1) \X (-1..1) :
                    /\ s.x + d[1] >= 0 /\ s.x + d[1] < g.width
                    /\ s.y + d[2] >= 0 /\ s.y + d[2] < g.height}}}

\* (0..total).filter(|i| !excluded.contains(i)).collect(), in increasing order
RECURSIVE candidates_from(_, _, _)
candidates_from(i, total, excluded) ==
    IF i >= total THEN <<>>
    ELSE IF i \in excluded THEN candidates_from(i + 1, total, excluded)
    ELSE <<i>> \o candidates_from(i + 1, total, excluded)

\* candidates.swap(i, j), both counted from 0
swap(seq, i, j) == [seq EXCEPT ![i + 1] = seq[j + 1], ![j + 1] = seq[i + 1]]

\* shuffle drawing with replacement: the picked candidate is copied to slot i
\* and slot j keeps it, instead of the two being swapped.
RECURSIVE shuffle_with_replacement(_, _, _, _)
shuffle_with_replacement(candidates, rng, i, to_place) ==
    IF i >= to_place THEN [candidates |-> candidates, rng |-> rng]
    ELSE LET n == Len(candidates)
             d == next_usize(rng, n - i)
             j == i + d.value
         IN  shuffle_with_replacement([candidates EXCEPT ![i + 1] = candidates[j + 1]],
                                      d.rng, i + 1, to_place)

\* The Fisher-Yates loop of place_mines: for i in 0..to_place.
RECURSIVE shuffle(_, _, _, _)
shuffle(candidates, rng, i, to_place) ==
    IF i >= to_place THEN [candidates |-> candidates, rng |-> rng]
    ELSE LET n == Len(candidates)
             d == next_usize(rng, n - i)
             j == i + d.value
         IN  shuffle(swap(candidates, i, j), d.rng, i + 1, to_place)

\* The for loop of recalculate_probabilities over the cells from index i.
RECURSIVE recalculate_from(_, _)
recalculate_from(g, i) ==
    LET total == cells_len(g)
    IN  IF i >= total THEN g
        ELSE IF ~is_superposition(g.cells[i]) THEN recalculate_from(g, i + 1)
        ELSE LET c == coords_of(g, i)
                 neighbor_mines == adjacent_mines(g, c.x, c.y)
                 max_neighbors == neighbor_count(g, c.x, c.y)
                 baseline == (g.mine_count * PScale) \div total
                 local_density == IF max_neighbors > 0
                                  THEN (neighbor_mines * PScale) \div max_neighbors
                                  ELSE baseline
                 blended == fmul(local_density, 600) + fmul(baseline, 400)
                 d == next_f64(g.rng)
                 noise == fmul(d.value, 60) - 30
                 raw == clamp(blended + noise, 10, 990)
                 scrambled == apply_probability(g.circuit, raw)
             IN  recalculate_from([g EXCEPT !.rng = d.rng,
                                            !.cells[i] = Superposition(scrambled)],
                                  i + 1)

\* QuantumGrid::recalculate_probabilities
recalculate_probabilities(g) == recalculate_from(g, 0)

\* The grid once the shuffle sh has run: the first to_place candidates are
\* mines, and mines_placed is set.
mark_mines(g, sh, to_place) ==
    [g EXCEPT !.rng = sh.rng,
              !.mine_map = [i \in DOMAIN g.mine_map |->
                               g.mine_map[i] \/ \E k \in 1..to_place : sh.candidates[k] = i],
              !.mines_placed = TRUE]

\* place_mines from the shuffle on: pick the mines among the candidates, then
\* recalculate the hints.
place_among(g, candidates) ==
    LET n == Len(candidates)
        to_place == Min(g.mine_count, n)
    IN  recalculate_probabilities(
            mark_mines(g, shuffle(candidates, g.rng, 0, to_place), to_place))

\* QuantumGrid::place_mines
place_mines(g, safe_index) ==
    place_among(g, candidates_from(0, cells_len(g), excluded_of(g, safe_index)))

\* ------------------------------------------------------------------------
\* grid.rs: construction
\* ------------------------------------------------------------------------

\* The cells new() generates, in index order: one draw of noise per cell.
RECURSIVE new_cells(_, _, _, _, _)
new_cells(total, rng, baseline, circuit, acc) ==
    IF Len(acc) >= total THEN [cells |-> acc, rng |-> rng]
    ELSE LET d == next_f64(rng)
             noise == fmul(d.value, 100) - 50
             raw == clamp(baseline + noise, 0, PScale)
             probability == apply_probability(circuit, raw)
         IN  new_cells(total, d.rng, baseline, circuit,
                       Append(acc, Superposition(probability)))

\* The links with every pair promoted when use_bell is set
RECURSIVE new_links_all_promoted(_, _, _, _, _, _, _)
new_links_all_promoted(left, total, step, strength, use_bell, pair_index, pairs) ==
    IF left >= total THEN pairs
    ELSE IF left + Max(step \div 2, 1) < total
    THEN new_links_all_promoted(
             left + step, total, step, strength, use_bell, pair_index + 1,
             add_pair(pairs, left, left + Max(step \div 2, 1), strength,
                      IF use_bell THEN "BellState" ELSE "Probabilistic"))
    ELSE new_links_all_promoted(left + step, total, step, strength, use_bell,
                                pair_index, pairs)

\* The links with each sampled index paired with the next sampled index
RECURSIVE new_links_chained(_, _, _, _, _, _, _)
new_links_chained(left, total, step, strength, use_bell, pair_index, pairs) ==
    IF left >= total THEN pairs
    ELSE IF left + step < total
    THEN new_links_chained(
             left + step, total, step, strength, use_bell, pair_index + 1,
             add_pair(pairs, left, left + step, strength,
                      IF use_bell /\ pair_index % 2 = 0
                      THEN "BellState" ELSE "Probabilistic"))
    ELSE new_links_chained(left + step, total, step, strength, use_bell,
                           pair_index, pairs)

\* The links new() registers: for left in (0..total).step_by(step).
RECURSIVE new_links(_, _, _, _, _, _, _)
new_links(left, total, step, strength, use_bell, pair_index, pairs) ==
    IF left >= total THEN pairs
    ELSE LET right == left + Max(step \div 2, 1)
         IN  IF right < total
             THEN LET link_type == IF use_bell /\ pair_index % 2 = 0
                                   THEN "BellState" ELSE "Probabilistic"
                  IN  new_links(left + step, total, step, strength, use_bell,
                                pair_index + 1,
                                add_pair(pairs, left, right, strength, link_type))
             ELSE new_links(left + step, total, step, strength, use_bell,
                            pair_index, pairs)

\* The (step, strength, use_bell) triple of a difficulty label
link_params(difficulty) ==
    CASE difficulty = "observer" -> [step |-> 11, strength |-> 200, use_bell |-> FALSE]
      [] difficulty = "theorist" -> [step |-> 5, strength |-> 500, use_bell |-> TRUE]
      [] OTHER -> [step |-> 7, strength |-> 350, use_bell |-> FALSE]

\* .collect::<Vec<_>>(): the Vec of a sequence, indexed from 0
collect(seq) == [i \in 0..(Len(seq) - 1) |-> seq[i + 1]]

\* The two ways the crate is built: with overflow checks (the dev profile,
\* where an overflowing subtraction panics) and without (the release profile,
\* where it wraps).
Builds == {"overflow_checks", "wrapping"}

\* a - b on u32: <<value>>, or <<>> when the subtraction panics.
sub_u32(a, b, build) ==
    IF a >= b THEN <<a - b>>
    ELSE IF build = "wrapping" THEN <<(a - b) % (2 ^ CountBits)>>
    ELSE <<>>

\* A grid built without its containment charges
new_grid_without_charges(width, height, clamped, seed, difficulty, gen, lp) ==
    [width |-> width,
     height |-> height,
     mine_count |-> clamped,
     game_over |-> FALSE,
     won |-> FALSE,
     seed |-> seed,
     containment_charges |-> 0,
     cells |-> collect(gen.cells),
     circuit |-> for_difficulty(difficulty),
     entanglement |-> new_links(0, width * height, lp.step, lp.strength,
                                lp.use_bell, 0, <<>>),
     rng |-> gen.rng,
     mine_map |-> [i \in 0..(width * height - 1) |-> FALSE],
     mines_placed |-> FALSE]

\* The grid new() returns once mine_count is clamped
new_grid(width, height, clamped, seed, difficulty, gen, lp) ==
    [width |-> width,
     height |-> height,
     mine_count |-> clamped,
     game_over |-> FALSE,
     won |-> FALSE,
     seed |-> seed,
     containment_charges |-> clamped,
     cells |-> collect(gen.cells),
     circuit |-> for_difficulty(difficulty),
     entanglement |-> new_links(0, width * height, lp.step, lp.strength,
                                lp.use_bell, 0, <<>>),
     rng |-> gen.rng,
     mine_map |-> [i \in 0..(width * height - 1) |-> FALSE],
     mines_placed |-> FALSE]

\* new() from the clamped mine count on
new_clamped(width, height, clamped, seed, difficulty) ==
    new_grid(width, height, clamped, seed, difficulty,
             new_cells(width * height, rng_new(seed),
                       clamp((clamped * PScale) \div Max(width * height, 1), 0, PScale),
                       for_difficulty(difficulty), <<>>),
             link_params(difficulty))

\* new() given what width * height - 9 evaluated to
new_limited(width, height, mine_count, seed, difficulty, limit) ==
    IF limit = <<>>
    THEN [kind |-> "Panic", message |-> "attempt to subtract with overflow"]
    ELSE [kind |-> "Ok",
          grid |-> new_clamped(width, height, Min(mine_count, limit[1]), seed,
                               difficulty)]

\* QuantumGrid::new in the given build: the grid, or the panic.
new_build(width, height, mine_count, seed, difficulty, build) ==
    new_limited(width, height, mine_count, seed, difficulty,
                sub_u32(width * height, 9, build))

\* QuantumGrid::new, for width * height >= 9, where no build overflows
new(width, height, mine_count, seed, difficulty) ==
    new_build(width, height, mine_count, seed, difficulty, "wrapping").grid

\* ------------------------------------------------------------------------
\* grid.rs: the public actions, as functions of the grid
\* ------------------------------------------------------------------------

\* The outcomes of the precondition checks
GameAlreadyOver(g) == [grid |-> g, outcome |-> [kind |-> "GameAlreadyOver"]]

OutOfBounds(g) == [grid |-> g, outcome |-> [kind |-> "OutOfBounds"]]

AlreadyResolved(g) == [grid |-> g, outcome |-> [kind |-> "AlreadyResolved"]]

NoChargesRemaining(g) == [grid |-> g, outcome |-> [kind |-> "NoChargesRemaining"]]

\* Placement run again on every accepted call
place_on_every_call(g, index) == place_mines(g, index)

\* The deferred placement: if !self.mines_placed { self.place_mines(index) }
ensure_placed(g, index) == IF ~g.mines_placed THEN place_mines(g, index) ELSE g

\* The detonation with the end of the game forgotten
detonated_game_goes_on(g, index) == [g EXCEPT !.cells[index] = Detonated]

\* self.cells[index].state = CellState::Detonated; self.game_over = true
detonated(g, index) == [g EXCEPT !.cells[index] = Detonated, !.game_over = TRUE]

\* reveal_cell on a grid whose mines are placed: detonation or reveal_safe.
reveal_placed(g, index, x, y) ==
    IF g.mine_map[index]
    THEN [grid |-> propagate_entanglement(detonated(g, index), index, TRUE),
          outcome |-> [kind |-> "MineDetonated", x |-> x, y |-> y]]
    ELSE reveal_safe(g, index)

\* reveal_cell once its preconditions have passed
reveal_resolve(g, index, x, y) == reveal_placed(ensure_placed(g, index), index, x, y)

\* reveal_cell with the bounds checked before the end of the game
reveal_cell_bounds_first(g, x, y) ==
    LET index == index_of(g, x, y)
    IN  IF index = None THEN OutOfBounds(g)
        ELSE IF g.game_over \/ g.won THEN GameAlreadyOver(g)
        ELSE IF ~is_superposition(g.cells[index]) THEN AlreadyResolved(g)
        ELSE reveal_resolve(g, index, x, y)

\* reveal_cell with the AlreadyResolved check forgotten
reveal_cell_unchecked(g, x, y) ==
    LET index == index_of(g, x, y)
    IN  IF g.game_over \/ g.won THEN GameAlreadyOver(g)
        ELSE IF index = None THEN OutOfBounds(g)
        ELSE reveal_resolve(g, index, x, y)

\* QuantumGrid::reveal_cell
reveal_cell(g, x, y) ==
    LET index == index_of(g, x, y)
    IN  IF g.game_over \/ g.won THEN GameAlreadyOver(g)
        ELSE IF index = None THEN OutOfBounds(g)
        ELSE IF ~is_superposition(g.cells[index]) THEN AlreadyResolved(g)
        ELSE reveal_resolve(g, index, x, y)

\* A containment that costs two charges, as far as there are two
spend_two_charges(g) == [g EXCEPT !.containment_charges = Max(@ - 2, 0)]

\* An attempt that costs nothing
spend_no_charge(g) == g

\* self.containment_charges -= 1
spend_charge(g) == [g EXCEPT !.containment_charges = @ - 1]

\* The match with only its `other => other` arm
containment_passed_on(r) == r

\* The match on what reveal_safe returned: Revealed becomes ContainmentFailed.
containment_failed(r) ==
    IF r.outcome.kind = "Revealed"
    THEN [grid |-> r.grid,
          outcome |-> [kind |-> "ContainmentFailed", cell |-> r.outcome.cell]]
    ELSE r

\* A contained mine shown as a safe cell
contained_shown_revealed(g, index) == revealed(g, index)

\* self.cells[index].state = CellState::Contained
contained(g, index) == [g EXCEPT !.cells[index] = Contained]

\* contain_cell believing the player: the target becomes Contained whatever
\* the mine map says.
contain_placed_as_claimed(g, index, x, y) ==
    [grid |-> update_won(propagate_entanglement(contained(g, index), index, TRUE)),
     outcome |-> [kind |-> "ContainmentSuccess", x |-> x, y |-> y]]

\* contain_cell on a grid whose mines are placed and whose charge is spent:
\* containment of a mine, or reveal_safe of a safe cell.
contain_placed(g, index, x, y) ==
    IF g.mine_map[index]
    THEN [grid |-> update_won(
                       propagate_entanglement(contained(g, index), index, TRUE)),
          outcome |-> [kind |-> "ContainmentSuccess", x |-> x, y |-> y]]
    ELSE containment_failed(reveal_safe(g, index))

\* A wrong guess gets its charge back.
refund(r) ==
    IF r.outcome.kind = "ContainmentFailed"
    THEN [r EXCEPT !.grid.containment_charges = @ + 1]
    ELSE r

\* contain_resolve with the charge spent only when the guess was right
contain_resolve_refund(g, index, x, y) ==
    refund(contain_placed(spend_charge(ensure_placed(g, index)), index, x, y))

\* contain_cell once its preconditions have passed
contain_resolve(g, index, x, y) ==
    contain_placed(spend_charge(ensure_placed(g, index)), index, x, y)

\* contain_cell with the bounds checked before the charges
contain_cell_bounds_first(g, x, y) ==
    LET index == index_of(g, x, y)
    IN  IF g.game_over \/ g.won THEN GameAlreadyOver(g)
        ELSE IF index = None THEN OutOfBounds(g)
        ELSE IF g.containment_charges = 0 THEN NoChargesRemaining(g)
        ELSE IF ~is_superposition(g.cells[index]) THEN AlreadyResolved(g)
        ELSE contain_resolve(g, index, x, y)

\* contain_cell with the charge taken as soon as one is found, before the
\* bounds and the state of the cell are checked
contain_cell_spend_first(g, x, y) ==
    LET index == index_of(g, x, y)
    IN  IF g.game_over \/ g.won THEN GameAlreadyOver(g)
        ELSE IF g.containment_charges = 0 THEN NoChargesRemaining(g)
        ELSE IF index = None THEN OutOfBounds(spend_charge(g))
        ELSE IF ~is_superposition(g.cells[index]) THEN AlreadyResolved(spend_charge(g))
        ELSE contain_resolve(g, index, x, y)

\* QuantumGrid::contain_cell
contain_cell(g, x, y) ==
    LET index == index_of(g, x, y)
    IN  IF g.game_over \/ g.won THEN GameAlreadyOver(g)
        ELSE IF g.containment_charges = 0 THEN NoChargesRemaining(g)
        ELSE IF index = None THEN OutOfBounds(g)
        ELSE IF ~is_superposition(g.cells[index]) THEN AlreadyResolved(g)
        ELSE contain_resolve(g, index, x, y)

\* The flip that leaves the probability as it is
flip_nothing(probability, one) == probability

\* (1.0 - probability).clamp(0.0, 1.0), where `one` is 1.0 on the grid of the
\* probability
flipped(probability, one) == clamp(fround(one - probability), 0, one)

\* QuantumGrid::apply_hadamard on a grid whose probabilities are in units of
\* 1 / one
apply_hadamard_at(g, x, y, one) ==
    LET index == index_of(g, x, y)
    IN  IF index = None
        THEN [grid |-> g, outcome |-> [kind |-> "Err", msg |-> "coordinates out of bounds"]]
        ELSE IF is_superposition(g.cells[index])
        THEN LET new_p == flipped(g.cells[index].probability, one)
             IN  [grid |-> [g EXCEPT !.cells[index] = Superposition(new_p)],
                  outcome |-> [kind |-> "Ok", value |-> new_p]]
        ELSE [grid |-> g, outcome |-> [kind |-> "Err", msg |-> "cell is already resolved"]]

\* QuantumGrid::apply_hadamard
apply_hadamard(g, x, y) == apply_hadamard_at(g, x, y, PScale)

\* measure_weak with the generator left where it was: the draw is not consumed
measure_weak_draw_kept(g, x, y) ==
    LET index == index_of(g, x, y)
    IN  IF index = None
        THEN [grid |-> g, outcome |-> [kind |-> "Err", msg |-> "coordinates out of bounds"]]
        ELSE IF is_superposition(g.cells[index])
        THEN [grid |-> [g EXCEPT !.cells[index] = Superposition(
                            clamp(g.cells[index].probability
                                  + fmul(next_f64(g.rng).value, 80) - 40, 10, 990))],
              outcome |-> [kind |-> "Ok", value |-> g.cells[index].probability]]
        ELSE [grid |-> g, outcome |-> [kind |-> "Err", msg |-> "cell is already resolved"]]

\* measure_weak returning what it stored rather than what it read
measure_weak_returns_stored(g, x, y) ==
    LET index == index_of(g, x, y)
    IN  IF index = None
        THEN [grid |-> g, outcome |-> [kind |-> "Err", msg |-> "coordinates out of bounds"]]
        ELSE IF is_superposition(g.cells[index])
        THEN [grid |-> [g EXCEPT !.rng = next_f64(g.rng).rng,
                                 !.cells[index] = Superposition(
                                     clamp(g.cells[index].probability
                                           + fmul(next_f64(g.rng).value, 80) - 40,
                                           10, 990))],
              outcome |-> [kind |-> "Ok",
                           value |-> clamp(g.cells[index].probability
                                           + fmul(next_f64(g.rng).value, 80) - 40,
                                           10, 990)]]
        ELSE [grid |-> g, outcome |-> [kind |-> "Err", msg |-> "cell is already resolved"]]

\* QuantumGrid::measure_weak
measure_weak(g, x, y) ==
    LET index == index_of(g, x, y)
    IN  IF index = None
        THEN [grid |-> g, outcome |-> [kind |-> "Err", msg |-> "coordinates out of bounds"]]
        ELSE IF is_superposition(g.cells[index])
        THEN LET observed == g.cells[index].probability
                 d == next_f64(g.rng)
                 drift == fmul(d.value, 80) - 40
                 perturbed == clamp(observed + drift, 10, 990)
             IN  [grid |-> [g EXCEPT !.rng = d.rng,
                                     !.cells[index] = Superposition(perturbed)],
                  outcome |-> [kind |-> "Ok", value |-> observed]]
        ELSE [grid |-> g, outcome |-> [kind |-> "Err", msg |-> "cell is already resolved"]]

\* ------------------------------------------------------------------------
\* The state machine: one grid, driven by its caller
\* ------------------------------------------------------------------------

VARIABLES
    grid,           \* the QuantumGrid
    last,           \* the last call the grid accepted (a call that is rejected
                    \* returns its error and leaves no trace): the operation
                    \* and what it returned
    requested,      \* the mine_count argument new() was called with
    anchor,         \* the index place_mines was called with: the target of
                    \* the call that placed the mines (None before)
    reveal_called,  \* whether reveal_cell has been called on the grid
    tools,          \* number of measurement-tool calls the grid accepted
    args,           \* the arguments of a call of a function that takes no
                    \* grid (<<>> while a grid is driven)
    result          \* what that call returned (<<>> before it returns)

vars == <<grid, last, requested, anchor, reveal_called, tools, args, result>>

\* The outcome kinds of a call that was rejected by a precondition
Rejections == {"GameAlreadyOver", "OutOfBounds", "AlreadyResolved", "NoChargesRemaining"}

\* Coordinates a caller passes to reveal_cell and contain_cell: every cell,
\* and three positions outside the grid.
Coords ==
    ((0..(grid.width - 1)) \X (0..(grid.height - 1)))
        \cup {<<grid.width, 0>>, <<0, grid.height>>, <<grid.width, grid.height>>}

\* Coordinates a caller passes to the measurement tools: the first cell (an
\* endpoint of the first link at every difficulty) and one position outside
\* the grid.
ToolCoords == {<<0, 0>>, <<grid.width, 0>>}

\* What the coordinates (x, y) designate in grid g
target_of(g, x, y) ==
    IF index_of(g, x, y) = None THEN "out_of_bounds"
    ELSE IF is_superposition(g.cells[index_of(g, x, y)]) THEN "superposition"
    ELSE "resolved"

\* The call returned one of the rejections, or the Err of a measurement tool.
rejected(r) == r.outcome.kind \in Rejections \cup {"Err"}

\* The record of the last accepted call after operation op returned r.
call(op, r) == IF rejected(r) THEN last ELSE [op |-> op, outcome |-> r.outcome]

Init ==
    /\ \E d \in Dims, m \in 0..MaxMines, s \in 0..MaxSeed, difficulty \in Difficulties :
          /\ grid = new(d[1], d[2], m, s, difficulty)
          /\ requested = m
    /\ last = [op |-> "new", outcome |-> [kind |-> "Ok"]]
    /\ anchor = None
    /\ reveal_called = FALSE
    /\ tools = 0
    /\ args = <<>>
    /\ result = <<>>

\* The anchor after a reveal_cell or contain_cell call on (x, y) returned r:
\* the index place_mines was called with, if this call placed the mines.
anchor_after(x, y, r) ==
    IF ~grid.mines_placed /\ r.grid.mines_placed THEN index_of(grid, x, y) ELSE anchor

RevealCell(x, y) ==
    \E r \in {reveal_cell(grid, x, y)} :
        /\ grid' = r.grid
        /\ last' = call("reveal_cell", r)
        /\ anchor' = anchor_after(x, y, r)
        /\ reveal_called' = TRUE
        /\ UNCHANGED <<requested, tools, args, result>>

ContainCell(x, y) ==
    \E r \in {contain_cell(grid, x, y)} :
        /\ grid' = r.grid
        /\ last' = call("contain_cell", r)
        /\ anchor' = anchor_after(x, y, r)
        /\ UNCHANGED <<requested, reveal_called, tools, args, result>>

ApplyHadamard(x, y) ==
    /\ tools < MaxTools
    /\ \E r \in {apply_hadamard(grid, x, y)} :
          /\ grid' = r.grid
          /\ last' = call("apply_hadamard", r)
          /\ tools' = IF rejected(r) THEN tools ELSE tools + 1
          /\ UNCHANGED <<requested, anchor, reveal_called, args, result>>

MeasureWeak(x, y) ==
    /\ tools < MaxTools
    /\ \E r \in {measure_weak(grid, x, y)} :
          /\ grid' = r.grid
          /\ last' = call("measure_weak", r)
          /\ tools' = IF rejected(r) THEN tools ELSE tools + 1
          /\ UNCHANGED <<requested, anchor, reveal_called, args, result>>

Next ==
    \/ \E c \in Coords : RevealCell(c[1], c[2])
    \/ \E c \in Coords : ContainCell(c[1], c[2])
    \/ \E c \in ToolCoords : ApplyHadamard(c[1], c[2])
    \/ \E c \in ToolCoords : MeasureWeak(c[1], c[2])

Spec == Init /\ [][Next]_vars

\* ------------------------------------------------------------------------
\* Grids whose link registry was replaced through the public field
\* `entanglement`, as the tests of grid.rs do before they exercise the
\* cascade (pairs.clear() followed by add_pair calls).
\* ------------------------------------------------------------------------

\* The grid the links are injected in, and the cells they join
LinkDim == <<4, 3>>
LinkCells == {3, 7, 11}
LinkDifficulty == "theorist"
Topologies == {"chain", "cycle", "duplicate", "self_link"}

\* add_pair(l, r, 1.0, LinkType::BellState)
add_bell(pairs, l, r) == add_pair(pairs, l, r, PScale, "BellState")

\* The registry after pairs.clear() and the add_pair calls of a topology
\* over the cells a, b, c
inject(topology, a, b, c) ==
    CASE topology = "chain" -> add_bell(add_bell(<<>>, a, b), b, c)
      [] topology = "cycle" -> add_bell(add_bell(add_bell(<<>>, a, b), b, c), c, a)
      [] topology = "duplicate" -> add_bell(add_bell(add_bell(<<>>, a, b), a, b), b, c)
      [] OTHER -> add_bell(add_bell(add_bell(<<>>, a, a), a, b), b, c)

InitLinks ==
    /\ \E m \in 1..MaxMines, s \in 0..MaxSeed,
          topology \in Topologies, a \in LinkCells, b \in LinkCells, c \in LinkCells :
          /\ a # b /\ b # c /\ a # c
          /\ grid = [new(LinkDim[1], LinkDim[2], m, s, LinkDifficulty)
                        EXCEPT !.entanglement = inject(topology, a, b, c)]
          /\ requested = m
    /\ last = [op |-> "new", outcome |-> [kind |-> "Ok"]]
    /\ anchor = None
    /\ reveal_called = FALSE
    /\ tools = 0
    /\ args = <<>>
    /\ result = <<>>

NextLinks ==
    \/ \E c \in Coords : RevealCell(c[1], c[2])
    \/ \E c \in Coords : ContainCell(c[1], c[2])

SpecLinks == InitLinks /\ [][NextLinks]_vars

\* ------------------------------------------------------------------------
\* Construction alone: new() called with small and empty dimensions, in both
\* builds.
\* ------------------------------------------------------------------------

\* No grid is driven.
NoGrid ==
    /\ grid = <<>>
    /\ last = <<>>
    /\ requested = 0
    /\ anchor = None
    /\ reveal_called = FALSE
    /\ tools = 0

InitNew ==
    /\ NoGrid
    /\ args \in [width : 0..MaxWidth, height : 0..MaxHeight,
                 mine_count : 0..MaxRequest, seed : 0..MaxSeed,
                 difficulty : Difficulties, build : Builds]
    /\ result = <<>>

Construct ==
    /\ result = <<>>
    /\ result' = <<new_build(args.width, args.height, args.mine_count, args.seed,
                             args.difficulty, args.build)>>
    /\ UNCHANGED <<grid, last, requested, anchor, reveal_called, tools, args>>

NextNew == Construct

SpecNew == InitNew /\ [][NextNew]_vars

\* ------------------------------------------------------------------------
\* The bounded draw of the generator, alone
\* ------------------------------------------------------------------------

\* The bounds a usize of the target can hold, up to MaxBound
BoundsOn(target) == 0..Min(MaxBound, 2 ^ usize_bits(target) - 1)

InitDraw ==
    /\ NoGrid
    /\ \E state \in 0..WordMax, target \in Targets :
           \E bound \in BoundsOn(target) :
               args = [state |-> state, bound |-> bound, target |-> target]
    /\ result = <<>>

Draw ==
    /\ result = <<>>
    /\ result' = <<next_usize_on(args.state, args.bound, args.target, 0)>>
    /\ UNCHANGED <<grid, last, requested, anchor, reveal_called, tools, args>>

NextDraw == Draw

SpecDraw == InitDraw /\ [][NextDraw]_vars

\* ------------------------------------------------------------------------
\* The constructor on larger grids, for the links it builds
\* ------------------------------------------------------------------------

\* The difficulty labels: the three that new() matches, and three it does not.
Labels == {"observer", "researcher", "theorist", "Theorist", "expert", ""}

InitBuild ==
    /\ NoGrid
    /\ args \in [width : 3..MaxSide, height : 3..MaxSide, mine_count : {0, MaxRequest},
                 seed : {0}, difficulty : Labels]
    /\ result = <<>>

Build ==
    /\ result = <<>>
    /\ result' = <<new(args.width, args.height, args.mine_count, args.seed,
                       args.difficulty)>>
    /\ UNCHANGED <<grid, last, requested, anchor, reveal_called, tools, args>>

NextBuild == Build

SpecBuild == InitBuild /\ [][NextBuild]_vars

\* ------------------------------------------------------------------------
\* collapse_partner_probability alone, on a link registered with add_pair as
\* the test probabilistic_link_unchanged does.
\* ------------------------------------------------------------------------

\* The f64 arguments: the grid of fractions, and one value on either side of
\* [0.0, 1.0]
Fractions == {k * FractionStep : k \in (-1)..((PScale \div FractionStep) + 1)}

LinkTypes == {"BellState", "Probabilistic"}

InitCollapse ==
    /\ NoGrid
    /\ args \in [link_type : LinkTypes, strength : Fractions,
                 observed_mine : BOOLEAN, baseline : Fractions]
    /\ result = <<>>

\* ent.add_pair(0, 1, strength, link_type);
\* ent.collapse_partner_probability(&ent.pairs[0], observed_mine, baseline)
CollapsePartner ==
    /\ result = <<>>
    /\ \E pairs \in {add_pair(<<>>, 0, 1, args.strength, args.link_type)} :
           result' = <<collapse_partner_probability(pairs[1], args.observed_mine,
                                                    args.baseline)>>
    /\ UNCHANGED <<grid, last, requested, anchor, reveal_called, tools, args>>

NextCollapse == CollapsePartner

SpecCollapse == InitCollapse /\ [][NextCollapse]_vars

\* ------------------------------------------------------------------------
\* apply_hadamard twice on one cell, whose probability is any floating-point
\* number of [0, 1] on the fine grid (the field `cells` is pub, and the
\* probabilities the circuit stores are not confined to a coarse grid).
\* ------------------------------------------------------------------------

\* The floating-point numbers of [0.0, 1.0] on the fine grid
FineProbabilities == {v \in 0..FineScale : fround(v) = v}

\* The cell the tool is applied to
FlipCell == [x |-> 1, y |-> 1]

InitFlip ==
    /\ \E p \in FineProbabilities :
          /\ grid = [new(3, 3, 0, 0, "researcher") EXCEPT
                        !.cells = [i \in DOMAIN @ |-> Superposition(p)]]
          /\ args = [x |-> FlipCell.x, y |-> FlipCell.y, probability |-> p]
    /\ last = [op |-> "new", outcome |-> [kind |-> "Ok"]]
    /\ requested = 0
    /\ anchor = None
    /\ reveal_called = FALSE
    /\ tools = 0
    /\ result = <<>>

\* The next of two apply_hadamard calls on the cell
Flip ==
    /\ tools < 2
    /\ \E r \in {apply_hadamard_at(grid, args.x, args.y, FineScale)} :
          /\ grid' = r.grid
          /\ last' = call("apply_hadamard", r)
          /\ result' = Append(result, r.outcome.value)
    /\ tools' = tools + 1
    /\ UNCHANGED <<requested, anchor, reveal_called, args>>

NextFlip == Flip

SpecFlip == InitFlip /\ [][NextFlip]_vars

\* ------------------------------------------------------------------------
\* measure_weak on a cell holding any probability of [0, 1], the ends
\* included, with the generator in any state (`cells` and `rng` are pub).
\* ------------------------------------------------------------------------

\* The cell the measurement is made on
WeakCell == [x |-> 1, y |-> 1]

InitWeak ==
    /\ \E p \in Fractions \cap (0..PScale), state \in 0..WordMax :
          /\ grid = [new(3, 3, 0, 0, "researcher") EXCEPT
                        !.cells = [i \in DOMAIN @ |-> Superposition(p)],
                        !.rng = state]
          /\ args = [x |-> WeakCell.x, y |-> WeakCell.y, probability |-> p]
    /\ last = [op |-> "new", outcome |-> [kind |-> "Ok"]]
    /\ requested = 0
    /\ anchor = None
    /\ reveal_called = FALSE
    /\ tools = 0
    /\ result = <<>>

\* One measure_weak call on the cell
Weak ==
    /\ tools < MaxTools
    /\ \E r \in {measure_weak(grid, args.x, args.y)} :
          /\ grid' = r.grid
          /\ last' = call("measure_weak", r)
          /\ result' = Append(result, r.outcome.value)
    /\ tools' = tools + 1
    /\ UNCHANGED <<requested, anchor, reveal_called, args>>

NextWeak == Weak

SpecWeak == InitWeak /\ [][NextWeak]_vars

\* ------------------------------------------------------------------------
\* Perfect play: the caller reads the mine map (a pub field) and, once a first
\* reveal_cell has placed the mines, reveals only safe Superposition cells and
\* contains only Superposition mines, as the test win_condition_is_entropy_zero
\* does.
\* ------------------------------------------------------------------------

\* The caller's choice of a cell to reveal: any cell first, a safe
\* Superposition cell afterwards.
RevealChoice(x, y) ==
    IF ~grid.mines_placed THEN index_of(grid, x, y) # None
    ELSE /\ target_of(grid, x, y) = "superposition"
         /\ ~grid.mine_map[index_of(grid, x, y)]

\* The caller's choice of a cell to contain: a Superposition mine.
ContainChoice(x, y) ==
    /\ grid.mines_placed
    /\ target_of(grid, x, y) = "superposition"
    /\ grid.mine_map[index_of(grid, x, y)]

NextPerfect ==
    \/ \E c \in Coords : RevealChoice(c[1], c[2]) /\ RevealCell(c[1], c[2])
    \/ \E c \in Coords : ContainChoice(c[1], c[2]) /\ ContainCell(c[1], c[2])
    \/ \E c \in ToolCoords : ApplyHadamard(c[1], c[2])
    \/ \E c \in ToolCoords : MeasureWeak(c[1], c[2])

SpecPerfect == Init /\ [][NextPerfect]_vars


(***************************************************************************)
(* Properties of mine placement                                            *)
(***************************************************************************)

\* The indices holding a mine
Mines == {i \in DOMAIN grid.mine_map : grid.mine_map[i]}

\* The distance between two coordinates on one axis
AbsDiff(a, b) == IF a >= b THEN a - b ELSE b - a

\* Cell i is cell a or one of the cells touching it, diagonals included.
InNeighborhood(i, a) ==
    /\ AbsDiff(i % grid.width, a % grid.width) <= 1
    /\ AbsDiff(i \div grid.width, a \div grid.width) <= 1

\* This step is a call of op that the grid accepted. (An accepted reveal_cell
\* or contain_cell call returns its target, which no earlier call returned.)
AcceptedStep(op) == last' # last /\ last'.op = op

\* The game has ended, by detonation or by victory.
Ended(g) == g.game_over \/ g.won

\* C1: once the mines are placed, neither the cell the placing call was made
\* on nor any cell touching it (diagonals included) holds a mine.
C1_AnchorNeighborhoodSafe ==
    grid.mines_placed =>
        /\ anchor # None
        /\ \A i \in Mines : ~InNeighborhood(i, anchor)

\* Mines are placed around an anchor that has all eight neighbours.
C1_Witness ==
    /\ grid.mines_placed
    /\ anchor # None
    /\ Cardinality({i \in DOMAIN grid.cells : InNeighborhood(i, anchor)}) = 9
    /\ Cardinality(Mines) = MaxMines

\* C2: when the requested mine count is at most width * height - 9, the grid
\* holds exactly that many mines from placement on, wherever the anchor is.
C2_ExactMineCount ==
    (requested <= grid.width * grid.height - 9 /\ grid.mines_placed) =>
        /\ Cardinality(Mines) = requested
        /\ grid.mine_count = requested

\* Two mines are placed around a corner anchor, and calls have followed.
C2_Witness ==
    /\ grid.mines_placed
    /\ requested = 2
    /\ requested <= grid.width * grid.height - 9
    /\ Cardinality({i \in DOMAIN grid.cells : InNeighborhood(i, anchor)}) = 4
    /\ Cardinality({i \in DOMAIN grid.cells : ~is_superposition(grid.cells[i])}) >= 2

\* C3 as stated: the first reveal_cell call made on a grid never returns
\* MineDetonated, whatever contain_cell or tool calls preceded it.
C3_FirstRevealNeverDetonates ==
    [][(~reveal_called /\ reveal_called') => last'.outcome.kind # "MineDetonated"]_vars

\* C3: a reveal_cell call made while the mines are not yet placed never
\* returns MineDetonated, whatever tool calls or rejected calls preceded it.
C3_RevealBeforePlacementSafe ==
    [][(AcceptedStep("reveal_cell") /\ ~grid.mines_placed)
          => last'.outcome.kind # "MineDetonated"]_vars

\* The first reveal_cell call placed the mines and revealed its target, after
\* a measurement tool had been used on the unplaced grid.
C3_Witness ==
    /\ last.op = "reveal_cell"
    /\ last.outcome.kind = "Revealed"
    /\ anchor = index_of(grid, last.outcome.cell.x, last.outcome.cell.y)
    /\ tools = 1
    /\ Mines # {}

(***************************************************************************)
(* Properties of the game state                                            *)
(***************************************************************************)

\* C5: the grid is won exactly when no cell is in superposition (entropy 0)
\* and the game has not been lost.
C5_WonIffResolvedAndNotLost ==
    grid.won <=> (entropy(grid) = 0 /\ ~grid.game_over)

\* The game was won by a containment, with mines on the grid.
C5_Witness ==
    /\ grid.won
    /\ last.op = "contain_cell"
    /\ last.outcome.kind = "ContainmentSuccess"
    /\ Cardinality(Mines) = 2

\* C6: no call increases the entropy, and an accepted reveal_cell or
\* contain_cell call strictly decreases it.
C6_EntropyDecreases ==
    [][/\ entropy(grid') <= entropy(grid)
       /\ (AcceptedStep("reveal_cell") \/ AcceptedStep("contain_cell"))
             => entropy(grid') < entropy(grid)]_vars

\* An accepted call resolved exactly one more cell of a partly resolved grid.
C6_Witness ==
    /\ last.op \in {"reveal_cell", "contain_cell"}
    /\ entropy(grid) > 0
    /\ entropy(grid) < PScale
    /\ Cardinality({i \in DOMAIN grid.cells : ~is_superposition(grid.cells[i])}) >= 3

\* C7: a cell that is Revealed, Contained or Detonated keeps its state and
\* its adjacent-mine count through every later call.
C7_ResolvedCellsFrozen ==
    [][\A i \in DOMAIN grid.cells :
          ~is_superposition(grid.cells[i]) => grid'.cells[i] = grid.cells[i]]_vars

\* A call was accepted on a grid that already had a contained mine and a
\* revealed cell counting it.
C7_Witness ==
    /\ last.op = "reveal_cell"
    /\ last.outcome.kind = "Revealed"
    /\ \E i, j \in DOMAIN grid.cells :
          /\ grid.cells[i].state = "Contained"
          /\ grid.cells[j].state = "Revealed"
          /\ grid.cells[j].adjacent_mines > 0
          /\ j # index_of(grid, last.outcome.cell.x, last.outcome.cell.y)

(***************************************************************************)
(* Properties of contain_cell and reveal_cell                              *)
(***************************************************************************)

\* C8: a contain_cell call that passes the preconditions takes exactly one
\* containment charge, whether it succeeds or fails, and the charges never
\* go below 0.
C8_ContainSpendsOneCharge ==
    /\ [](grid.containment_charges >= 0)
    /\ [][AcceptedStep("contain_cell")
             => /\ last'.outcome.kind \in {"ContainmentSuccess", "ContainmentFailed"}
                /\ grid'.containment_charges = grid.containment_charges - 1]_vars

\* A failed containment spent the last charge.
C8_Witness ==
    /\ last.op = "contain_cell"
    /\ last.outcome.kind = "ContainmentFailed"
    /\ grid.mine_count = 2
    /\ grid.containment_charges = 0

\* C9: contain_cell checks, in this order, the end of the game, the charges,
\* the bounds, and the state of the cell: with 0 charges on a running game it
\* returns NoChargesRemaining whatever the target, and on an ended game it
\* returns GameAlreadyOver whatever the charges.
C9_ContainCheckOrder ==
    \A c \in Coords :
        LET kind == contain_cell(grid, c[1], c[2]).outcome.kind
            target == target_of(grid, c[1], c[2])
        IN  IF Ended(grid) THEN kind = "GameAlreadyOver"
            ELSE IF grid.containment_charges = 0 THEN kind = "NoChargesRemaining"
            ELSE IF target = "out_of_bounds" THEN kind = "OutOfBounds"
            ELSE IF target = "resolved" THEN kind = "AlreadyResolved"
            ELSE kind \in {"ContainmentSuccess", "ContainmentFailed"}

\* The last charge of a running game has been spent by a containment, and
\* contain_cell returns NoChargesRemaining out of bounds and on a resolved
\* cell.
C9_Witness ==
    /\ last.op = "contain_cell"
    /\ grid.mine_count > 0
    /\ grid.containment_charges = 0
    /\ ~Ended(grid)
    /\ contain_cell(grid, grid.width, 0).outcome.kind = "NoChargesRemaining"
    /\ \E c \in Coords :
          /\ target_of(grid, c[1], c[2]) = "resolved"
          /\ contain_cell(grid, c[1], c[2]).outcome.kind = "NoChargesRemaining"

\* C10: reveal_cell checks, in this order, the end of the game, the bounds,
\* and the state of the cell.
C10_RevealCheckOrder ==
    \A c \in Coords :
        LET kind == reveal_cell(grid, c[1], c[2]).outcome.kind
            target == target_of(grid, c[1], c[2])
        IN  IF Ended(grid) THEN kind = "GameAlreadyOver"
            ELSE IF target = "out_of_bounds" THEN kind = "OutOfBounds"
            ELSE IF target = "resolved" THEN kind = "AlreadyResolved"
            ELSE kind \in {"Revealed", "MineDetonated"}

\* A detonation has ended the game, and reveal_cell returns GameAlreadyOver
\* out of bounds and on a resolved cell.
C10_Witness ==
    /\ last.outcome.kind = "MineDetonated"
    /\ grid.game_over
    /\ reveal_cell(grid, grid.width, 0).outcome.kind = "GameAlreadyOver"
    /\ \E c \in Coords :
          /\ target_of(grid, c[1], c[2]) = "resolved"
          /\ reveal_cell(grid, c[1], c[2]).outcome.kind = "GameAlreadyOver"


(***************************************************************************)
(* Properties of rejected calls                                            *)
(***************************************************************************)

\* The call that returned r, if it was rejected, returned the grid as it was.
LeavesGridUnchanged(r) == rejected(r) => r.grid = grid

\* C11: a call that reveal_cell or contain_cell rejects, or on which a
\* measurement tool fails, leaves every field of the grid as it was: cells,
\* flags, charges, mine map, placement status and generator state.
C11_RejectedCallsChangeNothing ==
    \A c \in Coords :
        /\ LeavesGridUnchanged(reveal_cell(grid, c[1], c[2]))
        /\ LeavesGridUnchanged(contain_cell(grid, c[1], c[2]))
        /\ LeavesGridUnchanged(apply_hadamard(grid, c[1], c[2]))
        /\ LeavesGridUnchanged(measure_weak(grid, c[1], c[2]))

\* On a running game with mines placed and no charge left, contain_cell is
\* rejected on a Superposition cell, and reveal_cell and both tools are
\* rejected on a resolved cell and out of bounds.
C11_Witness ==
    /\ ~Ended(grid)
    /\ grid.mines_placed
    /\ grid.mine_count > 0
    /\ grid.containment_charges = 0
    /\ \E c \in Coords :
          /\ target_of(grid, c[1], c[2]) = "superposition"
          /\ contain_cell(grid, c[1], c[2]).outcome.kind = "NoChargesRemaining"
    /\ \E c \in Coords :
          /\ target_of(grid, c[1], c[2]) = "resolved"
          /\ reveal_cell(grid, c[1], c[2]).outcome.kind = "AlreadyResolved"
          /\ apply_hadamard(grid, c[1], c[2]).outcome.kind = "Err"
          /\ measure_weak(grid, c[1], c[2]).outcome.kind = "Err"
    /\ reveal_cell(grid, grid.width, 0).outcome.kind = "OutOfBounds"
    /\ measure_weak(grid, 0, grid.height).outcome.kind = "Err"


(***************************************************************************)
(* Properties of the Bell cascade                                          *)
(***************************************************************************)

Cells == 0..(cells_len(grid) - 1)

\* The cells some link of the registry touches
Linked ==
    {grid.entanglement[k].left : k \in 1..Len(grid.entanglement)}
        \cup {grid.entanglement[k].right : k \in 1..Len(grid.entanglement)}

\* A hard link joins l and r, in either orientation.
HardLink(l, r) ==
    \E k \in 1..Len(grid.entanglement) :
        /\ grid.entanglement[k].link_type = "BellState"
        /\ \/ grid.entanglement[k].left = l /\ grid.entanglement[k].right = r
           \/ grid.entanglement[k].left = r /\ grid.entanglement[k].right = l

\* a - b - c is a chain of hard links over three distinct cells, all three in
\* Superposition, on a running game whose mines are placed.
ChainInSuperposition(a, b, c) ==
    /\ a # b /\ b # c /\ a # c
    /\ HardLink(a, b) /\ HardLink(b, c)
    /\ grid.mines_placed /\ ~Ended(grid)
    /\ \A i \in {a, b, c} : is_superposition(grid.cells[i])

\* None of a, b, c is in Superposition in the grid g.
AllResolved(g, a, b, c) == \A i \in {a, b, c} : ~is_superposition(g.cells[i])

\* The grid reveal_cell leaves when called on the cell of index a.
RevealOf(a) == reveal_cell(grid, coords_of(grid, a).x, coords_of(grid, a).y)

\* C12: when hard links join A to B and B to C and the three cells are in
\* Superposition (mines placed, game running), reveal_cell on A leaves none
\* of the three in Superposition, whether A is safe or a mine.
C12_ChainFullyResolved ==
    \A a \in Linked, b \in Linked, c \in Linked :
        ChainInSuperposition(a, b, c) => AllResolved(RevealOf(a).grid, a, b, c)

\* A chain whose one end is a mine and whose other end is safe: revealing the
\* mine end detonates it and resolves the other two, revealing the safe end
\* resolves all three too.
C12_Witness ==
    \E a \in Cells, b \in Cells, c \in Cells :
        /\ ChainInSuperposition(a, b, c)
        /\ grid.mine_map[a] /\ ~grid.mine_map[c]
        /\ RevealOf(a).outcome.kind = "MineDetonated"
        /\ AllResolved(RevealOf(a).grid, a, b, c)
        /\ RevealOf(c).outcome.kind = "Revealed"
        /\ AllResolved(RevealOf(c).grid, a, b, c)


\* The grid on which a call on the Superposition cell i starts its cascade:
\* mines placed, and the state of i assigned by reveal_cell or by contain_cell.
TargetWritten(g, i, op) ==
    IF ~g.mine_map[i] THEN revealed(g, i)
    ELSE IF op = "reveal_cell" THEN detonated(g, i)
    ELSE contained(g, i)

\* The cascade of a reveal_cell or contain_cell call on the cell i.
CascadeOf(i, op) ==
    propagate_entanglement_run(TargetWritten(ensure_placed(grid, i), i, op), i,
                               ensure_placed(grid, i).mine_map[i])

\* What the call `op` on the cell i returns.
CallOf(i, op) ==
    IF op = "reveal_cell" THEN RevealOf(i)
    ELSE contain_cell(grid, coords_of(grid, i).x, coords_of(grid, i).y)

\* The calls that pass their preconditions: the op and the target.
AcceptedCalls ==
    {c \in {"reveal_cell", "contain_cell"} \X Cells :
        /\ ~Ended(grid)
        /\ is_superposition(grid.cells[c[2]])
        /\ c[1] = "contain_cell" => grid.containment_charges > 0}

\* The cascade r of the call `op` on i ran to its end, assigned no cell twice
\* and not the target, and every cell it assigned has in the grid the call
\* returns the resolved state the cascade gave it.
CascadeWritesOnce(r, i, op) ==
    /\ r.returned
    /\ \A j \in 1..Len(r.writes), k \in 1..Len(r.writes) :
           j # k => r.writes[j] # r.writes[k]
    /\ \A j \in 1..Len(r.writes) :
           /\ r.writes[j] # i
           /\ ~is_superposition(r.grid.cells[r.writes[j]])
           /\ CallOf(i, op).grid.cells[r.writes[j]] = r.grid.cells[r.writes[j]]
    /\ ~is_superposition(CallOf(i, op).grid.cells[i])

\* a, b, c are three distinct cells in Superposition joined in a cycle of hard
\* links.
CycleInSuperposition(a, b, c) ==
    /\ a # b /\ b # c /\ a # c
    /\ HardLink(a, b) /\ HardLink(b, c) /\ HardLink(c, a)
    /\ \A i \in {a, b, c} : is_superposition(grid.cells[i])

\* The cascade r of a call on a cell of a cycle assigned both other cells.
CycleCovered(r, i) ==
    \A b \in Linked, c \in Linked :
        CycleInSuperposition(i, b, c) =>
            {b, c} \subseteq {r.writes[j] : j \in 1..Len(r.writes)}

DetonatedCells == {i \in Cells : grid.cells[i] = Detonated}

\* reveal_cell returned r on the cell i: the cell is Detonated, the game is
\* over and the outcome is MineDetonated at the coordinates of i.
Detonates(r, i) ==
    /\ r.outcome = [kind |-> "MineDetonated",
                    x |-> coords_of(grid, i).x, y |-> coords_of(grid, i).y]
    /\ r.grid.cells[i] = Detonated
    /\ r.grid.game_over

\* C14: reveal_cell on a Superposition cell that is a mine makes the cell
\* Detonated, sets game_over and returns MineDetonated; the game is over
\* exactly when some cell is Detonated, and at most one cell is Detonated.
C14_LostIffOneDetonation ==
    /\ grid.game_over <=> DetonatedCells # {}
    /\ Cardinality(DetonatedCells) <= 1
    /\ \A i \in Cells :
           (/\ ~Ended(grid)
            /\ grid.mines_placed
            /\ is_superposition(grid.cells[i])
            /\ grid.mine_map[i]) => Detonates(RevealOf(i), i)

\* A lost game: the last accepted call was a reveal_cell that returned
\* MineDetonated, and the cell it names is the one Detonated cell.
C14_Witness ==
    /\ last.op = "reveal_cell"
    /\ last.outcome.kind = "MineDetonated"
    /\ grid.game_over
    /\ DetonatedCells = {index_of(grid, last.outcome.x, last.outcome.y)}
    /\ \E i \in Cells : grid.cells[i] = Contained


\* The number of mines of the grid g on the cells touching i, counted from the
\* mine map.
TrueAdjacent(g, i) ==
    Cardinality({m \in DOMAIN g.mine_map :
                    g.mine_map[m] /\ m # i /\ InNeighborhood(m, i)})

\* The cell j of the grid g is Revealed with its true adjacent-mine count.
TrulyRevealed(g, j) == g.cells[j] = Revealed(TrueAdjacent(g, j))

\* The cells touching i
Touching(i) == {j \in Cells : j # i /\ InNeighborhood(j, i)}

\* In the grid g, every cell touching the zero-count cell i is Revealed with
\* its true count, and so is every cell touching one of those that has count
\* zero and was in Superposition, outside every link, before the call.
FloodFilled(g, i) ==
    \A j \in Touching(i) :
        /\ TrulyRevealed(g, j)
        /\ (/\ TrueAdjacent(g, j) = 0
            /\ is_superposition(grid.cells[j])
            /\ j \notin Linked) => \A k \in Touching(j) : TrulyRevealed(g, k)

\* contain_cell returned r on the cell i: what the mine map of r says about i
\* decides the state of i and the outcome.
ContainedByGroundTruth(r, i) ==
    IF r.grid.mine_map[i]
    THEN /\ r.grid.cells[i] = Contained
         /\ r.outcome = [kind |-> "ContainmentSuccess",
                         x |-> coords_of(grid, i).x, y |-> coords_of(grid, i).y]
    ELSE /\ TrulyRevealed(r.grid, i)
         /\ r.outcome = [kind |-> "ContainmentFailed",
                         cell |-> [x |-> coords_of(grid, i).x,
                                   y |-> coords_of(grid, i).y,
                                   state |-> Revealed(TrueAdjacent(r.grid, i))]]
         /\ TrueAdjacent(r.grid, i) = 0 => FloodFilled(r.grid, i)

\* C15: a contain_cell call that passes its preconditions resolves its target
\* by the mine map: a mine becomes Contained and the call returns
\* ContainmentSuccess; a safe cell becomes Revealed with its true adjacent
\* count, flood-filled when the count is 0, and the call returns
\* ContainmentFailed carrying that cell.
C15_ContainFollowsGroundTruth ==
    \A c \in AcceptedCalls :
        c[1] = "contain_cell" => ContainedByGroundTruth(CallOf(c[2], c[1]), c[2])

\* The last accepted call was a contain_cell on a safe cell without a mine
\* around it: the cell it carries is Revealed with count 0 and the cells
\* touching it are revealed.
C15_Witness ==
    /\ last.op = "contain_cell"
    /\ last.outcome.kind = "ContainmentFailed"
    /\ last.outcome.cell.state = Revealed(0)
    /\ \E i \in Cells :
          /\ i = index_of(grid, last.outcome.cell.x, last.outcome.cell.y)
          /\ FloodFilled(grid, i)
    /\ \E c \in AcceptedCalls :
          /\ c[1] = "contain_cell"
          /\ CallOf(c[2], c[1]).outcome.kind = "ContainmentSuccess"


(***************************************************************************)
(* Perfect play                                                            *)
(***************************************************************************)

\* The cells still in Superposition
Unresolved == {i \in Cells : is_superposition(grid.cells[i])}

\* The next move of a perfect player on the unresolved cell i is accepted:
\* reveal_cell returns Revealed on a safe cell (or on any cell before the
\* mines are placed) and contain_cell returns ContainmentSuccess on a mine.
PerfectMoveAccepted(i) ==
    IF grid.mines_placed /\ grid.mine_map[i]
    THEN CallOf(i, "contain_cell").outcome.kind = "ContainmentSuccess"
    ELSE CallOf(i, "reveal_cell").outcome.kind = "Revealed"

\* C16: along a perfect play the game is never lost, every move the player
\* makes next is accepted (never MineDetonated, never NoChargesRemaining,
\* never GameAlreadyOver while a cell is unresolved), and once the play has
\* started and no Superposition cell remains, won is set, game_over is not
\* and the entropy is 0.
C16_PerfectPlayWins ==
    /\ ~grid.game_over
    /\ last.outcome.kind \notin {"MineDetonated", "ContainmentFailed"}
    /\ \A i \in Unresolved : PerfectMoveAccepted(i)
    /\ (grid.mines_placed /\ Unresolved = {}) =>
           grid.won /\ ~grid.game_over /\ entropy(grid) = 0

\* The end of a perfect play in which mines had to be contained: every cell
\* resolved, every charge spent on a mine, the game won.
C16_Witness ==
    /\ Unresolved = {}
    /\ grid.won
    /\ grid.mine_count = 2
    /\ grid.containment_charges = 0
    /\ last.op = "contain_cell"
    /\ last.outcome.kind = "ContainmentSuccess"


(***************************************************************************)
(* Properties of construction                                              *)
(***************************************************************************)

\* C17: new() returns for every width, height and requested mine count,
\* grids of fewer than 9 cells included, and the mine_count of the grid it
\* returns is the request clamped to width * height - 9 (to 0 when that is
\* negative), so it never exceeds the number of cells.
C17_ConstructionNeverAborts ==
    result # <<>> =>
        /\ result[1].kind = "Ok"
        /\ result[1].grid.mine_count =
               Min(args.mine_count, Max(args.width * args.height - 9, 0))
        /\ result[1].grid.mine_count <= args.width * args.height


(***************************************************************************)
(* Properties of collapse_partner_probability                              *)
(***************************************************************************)

\* C18: on a BellState link collapse_partner_probability returns 0.0 when the
\* observed cell was a mine and 1.0 when it was safe, whatever the strength
\* and the baseline.
C18_BellAntiCorrelation ==
    (result # <<>> /\ args.link_type = "BellState") =>
        result[1] = IF args.observed_mine THEN 0 ELSE PScale

\* A BellState link registered with a strength above 1.0 and resolved on a safe
\* observation with a baseline below 0.0: the partner is given 1.0.
C18_Witness ==
    /\ result = <<PScale>>
    /\ args.link_type = "BellState"
    /\ ~args.observed_mine
    /\ args.strength > PScale
    /\ args.baseline < 0

\* The call is on a Probabilistic link with strength and baseline in [0, 1].
WeakLinkInRange ==
    /\ result # <<>>
    /\ args.link_type = "Probabilistic"
    /\ args.strength \in 0..PScale
    /\ args.baseline \in 0..PScale

\* b * (1 - s) + (1 - b) * s in exact arithmetic, in units of 1 / PScale^2
ExactBlend(b, s) == b * (PScale - s) + (PScale - b) * s

\* The result is within [0, 1] and, on a mine, within the rounding of the two
\* products of b * (1 - s) + (1 - b) * s.
BlendWithinRounding ==
    /\ result[1] \in 0..PScale
    /\ args.observed_mine =>
           AbsDiff(result[1] * PScale, ExactBlend(args.baseline, args.strength))
               < 2 * PScale

\* C19 (as stated): on a Probabilistic link with s and b in [0, 1] the result
\* is b * (1 - s) + (1 - b) * s on a mine and exactly b on a safe cell, and is
\* within [0, 1].
C19_SafeObservationKeepsBaselineExactly ==
    WeakLinkInRange =>
        /\ BlendWithinRounding
        /\ ~args.observed_mine => result[1] = args.baseline

\* C19 (amended): on a Probabilistic link with s and b in [0, 1] the result
\* is within [0, 1]; on a mine it is b * (1 - s) + (1 - b) * s up to the
\* rounding of the two products; on a safe cell it is b up to that rounding
\* (less than one unit in the last place per product), and exactly b when s
\* is 0 or 1.
C19_SafeObservationKeepsBaselineRounded ==
    WeakLinkInRange =>
        /\ BlendWithinRounding
        /\ ~args.observed_mine =>
               /\ AbsDiff(result[1], args.baseline) <= 1
               /\ args.strength \in {0, PScale} => result[1] = args.baseline

\* A safe observation on a link of strength 0.45 with baseline 0.15: the two
\* products are rounded and the result is one unit below the baseline.
C19_Witness ==
    /\ WeakLinkInRange
    /\ ~args.observed_mine
    /\ args.strength = 450
    /\ args.baseline = 150
    /\ result = <<149>>


(***************************************************************************)
(* Properties of the flip tool                                             *)
(***************************************************************************)

\* The probability stored in the cell the tool is applied to
StoredProbability == grid.cells[index_of(grid, args.x, args.y)].probability

\* Every application returned the probability it stored, and the first
\* returned 1 - p rounded to the nearest floating-point number.
FlipReturnsWhatItStores ==
    /\ result # <<>> => StoredProbability = result[Len(result)]
    /\ result # <<>> =>
           2 * AbsDiff(result[1], FineScale - args.probability)
               <= ulp(FineScale - args.probability, 1)

\* C20 (as stated): two apply_hadamard calls in a row on a Superposition cell
\* restore its stored probability exactly, each returning and storing 1 - p.
C20_FlipTwiceRestoresExactly ==
    /\ FlipReturnsWhatItStores
    /\ Len(result) = 2 => result[2] = args.probability

\* C20 (amended): each apply_hadamard call returns and stores 1 - p rounded
\* to the nearest floating-point number; two calls in a row restore the stored
\* probability up to half a unit in the last place of 1 - p, and exactly when
\* 1 - p is itself a floating-point number (as it is for every p >= 0.1 here,
\* every p >= 0.5 in binary).
C20_FlipTwiceRestoresRounded ==
    /\ FlipReturnsWhatItStores
    /\ Len(result) = 2 =>
           /\ 2 * AbsDiff(result[2], args.probability)
                  <= ulp(FineScale - args.probability, 1)
           /\ fround(FineScale - args.probability) = FineScale - args.probability
                  => result[2] = args.probability
           /\ 10 * args.probability >= FineScale => result[2] = args.probability

\* Two flips of a probability whose complement is not a floating-point
\* number: 0.0123 becomes 0.988, then 0.012.
C20_Witness ==
    /\ args.probability = 123
    /\ result = <<9880, 120>>
    /\ StoredProbability = 120


(***************************************************************************)
(* Properties of the measurement tools                                     *)
(***************************************************************************)

\* The generator state after exactly one draw
OneDraw(rng) == (rng + GOLDEN_GAMMA) % Word

\* The tool call that returned r on the cell (x, y) changed at most the
\* probability of that cell, which is still in Superposition, and left the
\* generator in the state rng_after.
OnlyHintChanged(r, x, y, rng_after) ==
    /\ is_superposition(r.grid.cells[index_of(grid, x, y)])
    /\ r.grid = [grid EXCEPT
                    !.cells[index_of(grid, x, y)] =
                        Superposition(r.grid.cells[index_of(grid, x, y)].probability),
                    !.rng = rng_after]

\* C21: a successful apply_hadamard or measure_weak changes the stored
\* probability of its target only: every state tag, every other cell, the
\* mine map, the charges, game_over, won and mines_placed are as before;
\* apply_hadamard leaves the generator as it was and measure_weak advances it
\* by exactly one draw.
C21_ToolsTouchOnlyTheHint ==
    \A c \in Coords :
        /\ ~rejected(apply_hadamard(grid, c[1], c[2])) =>
               OnlyHintChanged(apply_hadamard(grid, c[1], c[2]), c[1], c[2], grid.rng)
        /\ ~rejected(measure_weak(grid, c[1], c[2])) =>
               OnlyHintChanged(measure_weak(grid, c[1], c[2]), c[1], c[2],
                               OneDraw(grid.rng))

\* A tool was applied on a running game whose mines are placed, and both tools
\* still succeed on a Superposition cell, each changing the grid.
C21_Witness ==
    /\ last.op \in {"apply_hadamard", "measure_weak"}
    /\ grid.mines_placed
    /\ ~Ended(grid)
    /\ \E c \in Coords :
          /\ target_of(grid, c[1], c[2]) = "superposition"
          /\ apply_hadamard(grid, c[1], c[2]).grid # grid
          /\ measure_weak(grid, c[1], c[2]).grid.rng # grid.rng
          /\ measure_weak(grid, c[1], c[2]).grid.cells # grid.cells


\* measure_weak returned r on the cell of index i: the value is the
\* probability stored before, the cell is in Superposition with a probability
\* in [0.01, 0.99] that is the clamp of a value at most 0.04 away from the one
\* returned, and is itself at most 0.04 away from it.
WeakMeasurement(r, i) ==
    /\ r.outcome = [kind |-> "Ok", value |-> grid.cells[i].probability]
    /\ is_superposition(r.grid.cells[i])
    /\ r.grid.cells[i].probability \in 10..990
    /\ \E drift \in (-40)..40 :
           r.grid.cells[i].probability = clamp(r.outcome.value + drift, 10, 990)
    /\ AbsDiff(r.grid.cells[i].probability, r.outcome.value) <= 40

\* C22: measure_weak on a Superposition cell returns the probability stored
\* before the call and leaves the cell in Superposition with a probability
\* within [0.01, 0.99], at most 0.04 (and the clamp) away from the value
\* returned.
C22_WeakMeasureReturnsThenDrifts ==
    \A i \in Cells :
        is_superposition(grid.cells[i]) =>
            WeakMeasurement(
                measure_weak(grid, coords_of(grid, i).x, coords_of(grid, i).y), i)

\* A measurement of a cell that stored 0.0: the call returned 0.0 and the
\* perturbed value was clamped to 0.01.
C22_Witness ==
    /\ last.op = "measure_weak"
    /\ last.outcome.value = 0
    /\ result = <<0>>
    /\ grid.cells[index_of(grid, args.x, args.y)] = Superposition(10)


(***************************************************************************)
(* Properties of the grid before placement                                 *)
(***************************************************************************)

\* C23: as long as mines_placed is false (from construction until the first
\* reveal_cell or contain_cell call that passes its preconditions, whatever
\* tools and rejected calls came before), every cell is in Superposition, the
\* mine map is all false, the charges equal the clamped mine count, and
\* game_over and won are false.
C23_PristineUntilPlacement ==
    ~grid.mines_placed =>
        /\ \A i \in Cells : is_superposition(grid.cells[i])
        /\ Mines = {}
        /\ cells_len(grid) = grid.width * grid.height
        /\ DOMAIN grid.mine_map = Cells
        /\ grid.mine_count = Min(requested, grid.width * grid.height - 9)
        /\ grid.containment_charges = grid.mine_count
        /\ ~grid.game_over
        /\ ~grid.won
        /\ last.op \notin {"reveal_cell", "contain_cell"}

\* A grid with charges on which a tool succeeded and a reveal_cell call was
\* rejected, and whose mines are still to be placed.
C23_Witness ==
    /\ ~grid.mines_placed
    /\ grid.containment_charges > 0
    /\ last.op \in {"apply_hadamard", "measure_weak"}
    /\ reveal_called


(***************************************************************************)
(* Properties of what the cascade writes                                   *)
(***************************************************************************)

\* What the mine map of the grid g says the cell j is once resolved without a
\* detonation
GroundTruth(g, j) ==
    IF g.mine_map[j] THEN Contained ELSE Revealed(TrueAdjacent(g, j))

\* The cascade r, started on the grid g0, gave every cell it assigned its
\* ground truth, detonated nothing and left game_over as it was.
CascadeFollowsGroundTruth(r, g0) ==
    /\ \A k \in 1..Len(r.writes) :
           r.grid.cells[r.writes[k]] = GroundTruth(g0, r.writes[k])
    /\ \A j \in Cells : r.grid.cells[j] = Detonated => g0.cells[j] = Detonated
    /\ r.grid.game_over = g0.game_over
    /\ r.grid.mine_map = g0.mine_map

\* C24: a cell force-collapsed by the cascade becomes Contained if it is a
\* mine and Revealed with its true adjacent count otherwise, whether the
\* trigger that reached it was a mine or safe; the cascade produces no
\* Detonated cell and does not set game_over.
C24_CollapseFollowsGroundTruth ==
    /\ \A c \in AcceptedCalls :
           CascadeFollowsGroundTruth(
               CascadeOf(c[2], c[1]),
               TargetWritten(ensure_placed(grid, c[2]), c[2], c[1]))
    /\ \A j \in Cells, trigger \in BOOLEAN :
           (grid.mines_placed /\ is_superposition(grid.cells[j])) =>
               collapsed_state(grid, j, trigger) = GroundTruth(grid, j)

\* A hard link between two Superposition mines: revealing one detonates it
\* and the cascade, triggered by a mine, contains the other although the
\* anti-correlation predicts a safe cell.
C24_Witness ==
    \E a \in Linked, b \in Linked :
        /\ a # b /\ HardLink(a, b)
        /\ grid.mines_placed /\ ~Ended(grid)
        /\ is_superposition(grid.cells[a]) /\ is_superposition(grid.cells[b])
        /\ grid.mine_map[a] /\ grid.mine_map[b]
        /\ RevealOf(a).outcome.kind = "MineDetonated"
        /\ RevealOf(a).grid.cells[b] = Contained
        /\ b \in {CascadeOf(a, "reveal_cell").writes[k] :
                    k \in 1..Len(CascadeOf(a, "reveal_cell").writes)}


(***************************************************************************)
(* Properties of the flood fill                                            *)
(***************************************************************************)

\* The cells of S and the cells touching a safe cell of S of count zero
Grow(g, S) ==
    S \cup {j \in Cells :
               \E s \in S : /\ ~g.mine_map[s]
                            /\ TrueAdjacent(g, s) = 0
                            /\ j \in Touching(s)}

\* The cells reached from S by steps between touching cells that pass only
\* through safe cells of count zero
RECURSIVE ZeroRegion(_, _)
ZeroRegion(g, S) == IF Grow(g, S) = S THEN S ELSE ZeroRegion(g, Grow(g, S))

\* The call returned r after resolving the cell i: if i is safe with count
\* zero, every cell of its zero region is Revealed in the grid returned.
RegionRevealed(r, i) ==
    (/\ ~r.grid.mine_map[i]
     /\ TrueAdjacent(r.grid, i) = 0
     /\ r.outcome.kind \in {"Revealed", "ContainmentFailed"}) =>
        \A j \in ZeroRegion(r.grid, {i}) : r.grid.cells[j].state = "Revealed"

RevealedCells == {i \in Cells : grid.cells[i].state = "Revealed"}

\* C26: in every reachable state the adjacent_mines of every Revealed cell is
\* the number of mines of the mine map among its in-bounds neighbours, the
\* cell having been revealed directly, by the flood fill or by the cascade.
C26_RevealedCountIsTrue ==
    \A i \in RevealedCells : grid.cells[i].adjacent_mines = TrueAdjacent(grid, i)

\* A mine was contained, its hard-link partner was revealed by the cascade,
\* and cells with a diagonal mine, one revealed by the flood fill and not by
\* a call on it, show their counts.
C26_Witness ==
    /\ last.op = "contain_cell"
    /\ last.outcome.kind = "ContainmentSuccess"
    /\ \E j \in RevealedCells :
           HardLink(j, index_of(grid, last.outcome.x, last.outcome.y))
    /\ \E j \in RevealedCells :
           /\ j # anchor
           /\ grid.cells[j].adjacent_mines > 0
           /\ \E m \in Mines : /\ InNeighborhood(m, j)
                               /\ coords_of(grid, m).x # coords_of(grid, j).x
                               /\ coords_of(grid, m).y # coords_of(grid, j).y


(***************************************************************************)
(* Properties of the propagation across weak links                         *)
(***************************************************************************)

\* The links joining the cells i and p, in either orientation, by position
LinksJoining(i, p) ==
    {k \in 1..Len(grid.entanglement) :
        \/ grid.entanglement[k].left = i /\ grid.entanglement[k].right = p
        \/ grid.entanglement[k].left = p /\ grid.entanglement[k].right = i}

\* The cells other than i that a weak link joins to i
WeakPartners(i) ==
    {p \in Cells \ {i} :
        \E k \in LinksJoining(i, p) : grid.entanglement[k].link_type = "Probabilistic"}

\* The first link joining i and p
FirstLink(i, p) ==
    grid.entanglement[CHOOSE k \in LinksJoining(i, p) :
                          \A other \in LinksJoining(i, p) : k <= other]

\* resolve_partner on the link of i and p, for the ground truth of i and the
\* probability p stores in the grid g
Adjusted(g, i, p) ==
    Superposition(collapse_partner_probability(FirstLink(i, p), g.mine_map[i],
                                               g.cells[p].probability))

\* The call on i, entered with the grid g after placement, returned r: every
\* weak-link partner of i that was in Superposition is in Superposition with
\* the adjusted probability, every resolved one is as it was.
WeakPartnersAdjusted(r, g, i) ==
    \A p \in WeakPartners(i) :
        IF is_superposition(g.cells[p])
        THEN r.grid.cells[p] = Adjusted(g, i, p)
        ELSE r.grid.cells[p] = g.cells[p]

\* The same, but for the partners that the same call resolves after the
\* adjustment: those the flood fill from a zero-count i reaches, and those a
\* cascade cas over hard links assigns. They hold their ground truth.
WeakPartnersAdjustedOrResolved(r, g, cas, i) ==
    \A p \in WeakPartners(i) :
        IF ~is_superposition(g.cells[p]) THEN r.grid.cells[p] = g.cells[p]
        ELSE IF is_superposition(r.grid.cells[p])
        THEN r.grid.cells[p] = Adjusted(g, i, p)
        ELSE /\ r.grid.cells[p] = GroundTruth(g, p)
             /\ \/ ~is_superposition(cas.grid.cells[p])
                \/ /\ ~g.mine_map[i] /\ TrueAdjacent(g, i) = 0
                   /\ ~g.mine_map[p] /\ p \in ZeroRegion(g, {i})

\* C27 as stated: after an accepted reveal_cell or contain_cell on a cell,
\* each of its weak-link partners that was in Superposition is still in
\* Superposition with the probability resolve_partner gives, and each resolved
\* one is untouched.
C27_WeakPartnerStaysInSuperposition ==
    \A c \in AcceptedCalls :
        WeakPartnersAdjusted(CallOf(c[2], c[1]), ensure_placed(grid, c[2]), c[2])

\* C27: after an accepted reveal_cell or contain_cell on a cell, each of its
\* weak-link partners that was resolved is untouched, and each that was in
\* Superposition either is in Superposition with the probability
\* resolve_partner gives for the ground truth of the target and the
\* probability stored before, or was resolved to its ground truth later in
\* the same call by the flood fill or a hard-link cascade.
C27_WeakPartnerAdjustedUnlessResolved ==
    \A c \in AcceptedCalls :
        WeakPartnersAdjustedOrResolved(CallOf(c[2], c[1]), ensure_placed(grid, c[2]),
                                       CascadeOf(c[2], c[1]), c[2])

\* A mine with a weak-link partner, both in Superposition: revealing the mine
\* leaves the partner in Superposition with another probability.
C27_Witness ==
    \E i \in Cells : \E p \in WeakPartners(i) :
        /\ grid.mines_placed /\ ~Ended(grid)
        /\ grid.mine_map[i]
        /\ is_superposition(grid.cells[i]) /\ is_superposition(grid.cells[p])
        /\ RevealOf(i).outcome.kind = "MineDetonated"
        /\ is_superposition(RevealOf(i).grid.cells[p])
        /\ RevealOf(i).grid.cells[p] = Adjusted(grid, i, p)
        /\ RevealOf(i).grid.cells[p] # grid.cells[p]


(***************************************************************************)
(* Properties of the links the constructor builds                          *)
(***************************************************************************)

\* The links of the grid just built
Built == result[1].entanglement

\* The links of the grid just built are in the order of their left index.
InIndexOrder ==
    \A k \in 1..(Len(Built) - 1) : Built[k].left < Built[k + 1].left

\* The cell i is an endpoint of the link l.
EndpointOf(i, l) == l.left = i \/ l.right = i

\* The hard links of the grid just built, by position
BuiltHard == {k \in 1..Len(Built) : Built[k].link_type = "BellState"}

\* C28: in a grid built with the label theorist the links are in index order
\* and the k-th link, counted from 0, is hard iff k is even and weak
\* otherwise; a grid built with any other label has no hard link.
C28_AlternateLinksHard ==
    result # <<>> =>
        IF args.difficulty = "theorist"
        THEN /\ InIndexOrder
             /\ \A k \in 1..Len(Built) :
                    Built[k].link_type =
                        IF (k - 1) % 2 = 0 THEN "BellState" ELSE "Probabilistic"
        ELSE BuiltHard = {}

\* A theorist grid with at least four links: the third is hard, the fourth weak.
C28_Witness ==
    /\ result # <<>>
    /\ args.difficulty = "theorist"
    /\ Len(Built) >= 4
    /\ Built[3].link_type = "BellState"
    /\ Built[4].link_type = "Probabilistic"

\* C29 as stated: a theorist grid with at least two hard links has a cell that
\* is an endpoint of two or more of its hard links.
C29_TheoristLinksFormChains ==
    (result # <<>> /\ args.difficulty = "theorist" /\ Cardinality(BuiltHard) >= 2) =>
        \E i \in 0..(args.width * args.height - 1) :
            Cardinality({k \in BuiltHard : EndpointOf(i, Built[k])}) >= 2

\* C29: the links built by construction are pairwise disjoint: no cell is an
\* endpoint of two links, at theorist the k-th link, counted from 0, joins
\* the cells 5k and 5k + 2, and so no hard link continues another.
C29_BuiltLinksAreDisjoint ==
    result # <<>> =>
        /\ \A i \in 0..(args.width * args.height - 1) :
               Cardinality({k \in 1..Len(Built) : EndpointOf(i, Built[k])}) <= 1
        /\ args.difficulty = "theorist" =>
               \A k \in 1..Len(Built) :
                   /\ Built[k].left = 5 * (k - 1)
                   /\ Built[k].right = 5 * (k - 1) + 2

\* A theorist grid with four hard links, none sharing a cell with another.
C29_Witness ==
    /\ result # <<>>
    /\ args.difficulty = "theorist"
    /\ Cardinality(BuiltHard) >= 4
    /\ \A k \in BuiltHard, other \in BuiltHard :
           k # other => {Built[k].left, Built[k].right}
                            \cap {Built[other].left, Built[other].right} = {}


(***************************************************************************)
(* Properties of the outcome tags                                          *)
(***************************************************************************)

\* The tags reveal_cell returns on the current grid, over all coordinates
RevealTags == {reveal_cell(grid, c[1], c[2]).outcome.kind : c \in Coords}

\* The tags contain_cell returns on the current grid
ContainTags == {contain_cell(grid, c[1], c[2]).outcome.kind : c \in Coords}

\* C30: reveal_cell returns only GameAlreadyOver, OutOfBounds, AlreadyResolved,
\* MineDetonated or Revealed; contain_cell returns only GameAlreadyOver,
\* NoChargesRemaining, OutOfBounds, AlreadyResolved, ContainmentSuccess or
\* ContainmentFailed.
C30_OutcomeTagsClosed ==
    /\ RevealTags \subseteq {"GameAlreadyOver", "OutOfBounds", "AlreadyResolved",
                             "MineDetonated", "Revealed"}
    /\ ContainTags \subseteq {"GameAlreadyOver", "NoChargesRemaining", "OutOfBounds",
                              "AlreadyResolved", "ContainmentSuccess",
                              "ContainmentFailed"}

\* A game under way where the calls return every tag a running game with
\* charges left can give.
C30_Witness ==
    /\ grid.mines_placed
    /\ RevealTags = {"OutOfBounds", "AlreadyResolved", "MineDetonated", "Revealed"}
    /\ ContainTags = {"OutOfBounds", "AlreadyResolved", "ContainmentSuccess",
                      "ContainmentFailed"}


(***************************************************************************)
(* Properties of the range of the stored probabilities                     *)
(***************************************************************************)

\* The inputs given to the pipeline: every value from FractionStep / PScale
\* below 0.0 to as much above 1.0
PipelineInputs == (0 - FractionStep)..(PScale + FractionStep)

\* Every preset maps every input into [0, 1].
PipelineInRange ==
    \A label \in Labels, input \in PipelineInputs :
        apply_probability(for_difficulty(label), input) \in 0..PScale

\* The Superposition cells
SuperpositionCells == {i \in Cells : is_superposition(grid.cells[i])}

\* C31: in every reachable state the probability stored in every
\* Superposition cell is in [0, 1], and the pipeline of every preset returns
\* a value in [0, 1] for every input.
C31_ProbabilitiesInRange ==
    /\ \A i \in SuperpositionCells : grid.cells[i].probability \in 0..PScale
    /\ PipelineInRange

\* After placement has recomputed the hints and a tool has rewritten one, the
\* cells in Superposition store hints on both sides of one half.
C31_Witness ==
    /\ grid.mines_placed
    /\ last.op \in {"apply_hadamard", "measure_weak"}
    /\ \E i \in SuperpositionCells : grid.cells[i].probability > PScale \div 2
    /\ \E i \in SuperpositionCells : grid.cells[i].probability < PScale \div 2


(***************************************************************************)
(* Properties of the bounded draw                                          *)
(***************************************************************************)

\* The raw draws that next_usize accepts and maps to the value v
AcceptedDraws(bound, target, v) ==
    {x \in 0..WordMax : /\ bucket_of(x, bound, target) = v
                        /\ accepted(x, bound, v)}

\* Every value of [0, bound) is the image of as many accepted raw draws.
Unbiased(bound, target) ==
    \A v \in 0..(bound - 1) :
        Cardinality(AcceptedDraws(bound, target, v))
            = Cardinality(AcceptedDraws(bound, target, 0))

\* The draw returned a value of [0, bound), or 0 and the generator untouched
\* when bound <= 1.
DrawInRange ==
    result # <<>> =>
        IF args.bound <= 1
        THEN result[1].value = 0 /\ result[1].rng = args.state /\ result[1].draws = 0
        ELSE result[1].value \in 0..(args.bound - 1) /\ result[1].draws >= 1

\* C32: for every bound >= 2 next_usize returns a value of [0, bound) and the
\* accepted raw draws map to each value of [0, bound) equally often; for
\* bound <= 1 it returns 0 without a draw.
C32_BoundedDrawUnbiased ==
    /\ DrawInRange
    /\ args.bound >= 2 => Unbiased(args.bound, args.target)


(***************************************************************************)
(* Properties tying the resolved cells to the mine map                     *)
(***************************************************************************)

\* C33: in every reachable state no Revealed cell is a mine of the mine map,
\* and every Contained or Detonated cell is one.
C33_ResolvedCellsMatchMineMap ==
    \A i \in Cells :
        /\ grid.cells[i].state = "Revealed" => ~grid.mine_map[i]
        /\ grid.cells[i].state \in {"Contained", "Detonated"} => grid.mine_map[i]

\* A lost game with a Detonated mine, a mine Contained by the cascade of a
\* hard link and not by a call on it, and Revealed cells.
C33_Witness ==
    /\ grid.game_over
    /\ last.outcome.kind = "MineDetonated"
    /\ RevealedCells # {}
    /\ \E i \in DetonatedCells : \E j \in Linked :
           /\ HardLink(i, j)
           /\ grid.cells[j] = Contained
           /\ grid.containment_charges = grid.mine_count


(***************************************************************************)
(* Properties of placement over time                                       *)
(***************************************************************************)

\* C34: once mines_placed is true it stays true, and no step changes an
\* entry of the mine map from then on.
C34_PlacedOnce ==
    [][grid.mines_placed =>
          /\ grid'.mines_placed
          /\ grid'.mine_map = grid.mine_map]_vars

\* Mines are placed and a later accepted call, on a cell other than the one
\* that placed them, has resolved its target.
C34_Witness ==
    /\ grid.mines_placed
    /\ Cardinality(Mines) = grid.mine_count
    /\ grid.mine_count = 2
    /\ last.op = "contain_cell"
    /\ last.outcome.kind = "ContainmentSuccess"
    /\ index_of(grid, last.outcome.x, last.outcome.y) # anchor


(***************************************************************************)
(* Properties of the charges                                               *)
(***************************************************************************)

\* The registry of the grid holds no hard link.
NoHardLink ==
    \A k \in 1..Len(grid.entanglement) : grid.entanglement[k].link_type # "BellState"

\* The last accepted call was a contain_cell on a safe cell, in a grid
\* without hard links.
WastedCharge ==
    /\ NoHardLink
    /\ last.op = "contain_cell"
    /\ last.outcome.kind = "ContainmentFailed"

\* The Contained cells
ContainedCells == {i \in Cells : grid.cells[i] = Contained}

FloodFilledBy(r, cas) ==
    {j \in Cells : /\ is_superposition(cas.grid.cells[j])
                   /\ r.grid.cells[j].state = "Revealed"}

\* The cells a link of the grid joins to the cell j
PartnersOf(j) == {p \in Cells \ {j} : LinksJoining(j, p) # {}}

\* The call on the cell i, entered with the grid g after placement, ran the
\* propagation cas of i and returned r: every partner of a flood-filled cell
\* other than i is flood-filled itself or is as the propagation of i left
\* it, and if that propagation did not resolve it either, as it was in g.
FloodLeavesPartners(r, g, cas, i) ==
    \A j \in FloodFilledBy(r, cas) : \A p \in PartnersOf(j) \ {i} :
        \/ p \in FloodFilledBy(r, cas)
        \/ /\ r.grid.cells[p] = cas.grid.cells[p]
           /\ is_superposition(cas.grid.cells[p]) => r.grid.cells[p] = g.cells[p]

\* C36: a cell revealed by the flood fill triggers no link processing: each
\* of its linked partners keeps its state and stored probability unless the
\* flood fill or the propagation of the clicked cell resolved it.
C36_FloodFillProcessesNoLink ==
    \A c \in AcceptedCalls :
        FloodLeavesPartners(CallOf(c[2], c[1]), ensure_placed(grid, c[2]),
                            CascadeOf(c[2], c[1]), c[2])

\* A reveal whose flood fill reveals one end of a hard link while the other
\* end, a mine, stays in Superposition with the probability it had.
C36_Witness ==
    \E i \in Cells : \E j \in Cells \ {i} : \E p \in PartnersOf(j) \ {i} :
        /\ grid.mines_placed /\ ~Ended(grid)
        /\ is_superposition(grid.cells[i])
        /\ HardLink(j, p)
        /\ j \in FloodFilledBy(RevealOf(i), CascadeOf(i, "reveal_cell"))
        /\ grid.mine_map[p]
        /\ is_superposition(grid.cells[p])
        /\ RevealOf(i).grid.cells[p] = grid.cells[p]


\* This step is an accepted contain_cell call that returned ContainmentSuccess
\* or ContainmentFailed.
ContainAttempt ==
    /\ AcceptedStep("contain_cell")
    /\ last'.outcome.kind \in {"ContainmentSuccess", "ContainmentFailed"}

\* C37: containment_charges starts at mine_count, a contain_cell call that
\* returns ContainmentSuccess or ContainmentFailed takes exactly one charge,
\* and no other step (reveal_cell, the flood fill, the propagation over weak
\* and hard links, the tools, a rejected call) changes the charges or
\* mine_count; so the charges are mine_count minus the number of such
\* outcomes returned.
C37_ChargesCountAttempts ==
    /\ grid.containment_charges = grid.mine_count
    /\ [][/\ grid'.mine_count = grid.mine_count
          /\ grid'.containment_charges =
                 IF ContainAttempt THEN grid.containment_charges - 1
                 ELSE grid.containment_charges]_vars

\* Two mines are Contained for one charge: one by the contain_cell call, the
\* other by the cascade over a hard link.
C37_Witness ==
    /\ last.op = "contain_cell"
    /\ last.outcome.kind = "ContainmentSuccess"
    /\ Cardinality(ContainedCells) = 2
    /\ grid.containment_charges = grid.mine_count - 1

=============================================================================
